---- MODULE Spec2Model ----
(***************************************************************************)
(* Model of the simulation core of src/pipeline.py: the Effect Propagator  *)
(* (determine_effect_coeff, determine_effect_coeff_true) and the           *)
(* Coefficient Sampler (basic_random_sample, hub_random_sample).           *)
(*                                                                         *)
(* Numbers.  The code computes in binary floating point; the model         *)
(* computes the same expressions exactly, over integers: MarketShare and   *)
(* HHI are in hundredths (60 is 0.60), coefficient draws are whole         *)
(* numbers, so an effect is in ten-thousandths (3200 is 0.32).             *)
(***************************************************************************)
EXTENDS Integers, Sequences, FiniteSets, TLC

\* ------------------------------------------------------------------ bounds
MaxObs == 3
MaxSeries == 3
MaxRows == 4
MaxSims == 2
SmallRows == 2

\* ------------------------------------------------------- program constants
NumHubBins == 4

\* ----------------------------------------------------------------- helpers
Range(s) == {s[i] : i \in DOMAIN s}

RECURSIVE SeqSum(_)
SeqSum(s) == IF s = <<>> THEN 0 ELSE Head(s) + SeqSum(Tail(s))

RECURSIVE Flatten(_)
\* np.concatenate / np.vstack of a list of arrays along the first axis.
Flatten(list) == IF list = <<>> THEN <<>> ELSE Head(list) \o Flatten(Tail(list))

RECURSIVE LexLess(_, _)
\* Python's ordering of two equal-length key tuples.
LexLess(a, b) ==
    IF a = <<>> \/ b = <<>> THEN FALSE
    ELSE IF Head(a) # Head(b) THEN Head(a) < Head(b)
    ELSE LexLess(Tail(a), Tail(b))

RECURSIVE SortKeys(_)
SortKeys(S) ==
    IF S = {} THEN <<>>
    ELSE LET m == CHOOSE x \in S : \A y \in S \ {x} : LexLess(x, y)
         IN  <<m>> \o SortKeys(S \ {m})

\* ------------------------------------------------------------ column names
DEFAULT_GROUP_KEYS == <<"OriginAirportID", "Year", "Month">>

DEFAULT_HUB_DUMMY_COLS ==
    <<"AirlineHubSize_0", "AirlineHubSize_1", "AirlineHubSize_2", "AirlineHubSize_3">>

ValueCols == {"MarketShare", "HHI", "MonthlyFlights", "AirportHubSize"}

AllColumns ==
    Range(DEFAULT_GROUP_KEYS) \cup ValueCols \cup Range(DEFAULT_HUB_DUMMY_COLS)
        \cup {"AirlineHubSize"}

\* --------------------------------------------------------------- the table
\* A data frame: its column names and its rows, each row a function from
\* the column names to values.
DataFrame(cols, rows) == [columns |-> cols, rows |-> rows]

KeyOf(row, keys) == [k \in 1..Len(keys) |-> row[keys[k]]]

RECURSIVE FirstSeen(_, _)
\* The distinct values of a sequence in order of first appearance.
FirstSeen(s, seen) ==
    IF s = <<>> THEN <<>>
    ELSE IF Head(s) \in seen THEN FirstSeen(Tail(s), seen)
    ELSE <<Head(s)>> \o FirstSeen(Tail(s), seen \cup {Head(s)})

GroupByFirstKey(df, keys, sort) ==
    LET ks    == [i \in 1..Len(df.rows) |-> KeyOf(df.rows[i], SubSeq(keys, 1, 1))]
        order == IF sort THEN SortKeys(Range(ks)) ELSE FirstSeen(ks, {})
        Of(k) == SelectSeq(df.rows, LAMBDA r : KeyOf(r, SubSeq(keys, 1, 1)) = k)
    IN  [g \in 1..Len(order) |-> Of(order[g])]

GroupByUnsorted(df, keys, sort) ==
    LET ks    == [i \in 1..Len(df.rows) |-> KeyOf(df.rows[i], keys)]
        order == FirstSeen(ks, {})
        Of(k) == SelectSeq(df.rows, LAMBDA r : KeyOf(r, keys) = k)
    IN  [g \in 1..Len(order) |-> Of(order[g])]

\* df.groupby(keys, sort=...): the groups in key order (sort=True, the
\* default) or in order of first appearance (sort=False); each group holds
\* its rows in their input order.
GroupBy(df, keys, sort) ==
    LET ks    == [i \in 1..Len(df.rows) |-> KeyOf(df.rows[i], keys)]
        order == IF sort THEN SortKeys(Range(ks)) ELSE FirstSeen(ks, {})
        Of(k) == SelectSeq(df.rows, LAMBDA r : KeyOf(r, keys) = k)
    IN  [g \in 1..Len(order) |-> Of(order[g])]

\* ---------------------------------------------------------------- matrices
\* A numpy array: its shape and, for a 2-dimensional array, its rows.
Matrix(nrows, ncols, data) == [shape |-> <<nrows, ncols>>, data |-> data]

Ndim(a) == Len(a.shape)


Dot(a, b) == SeqSum([k \in 1..Len(a) |-> a[k] * b[k]])

\* ------------------------------------------------------------------- state
VARIABLES
    df_inputs,          \* argument: the airline-market table
    random_sample,      \* argument: the coefficient draw matrix
    group_keys,         \* argument: the columns that define a market
    hub_dummy_cols,     \* argument: the one-hot hub-bin columns
    pc,                 \* position in determine_effect_coeff
    groups,             \* the groups the loop has still to visit
    group,              \* the group of the last loop iteration
    others_by_bin,      \* local of the last loop iteration
    effect_list,        \* per-market effect matrices collected so far
    monthly_flights,    \* per-market arrays collected so far
    market_share,
    airport_hub_size,
    group_id_first_key,
    result,             \* what determine_effect_coeff returned or raised
    true_params,        \* argument of determine_effect_coeff_true
    t_pc,               \* position in determine_effect_coeff_true
    t_groups,           \* the groups its loop has still to visit
    results,            \* its list of output rows
    t_result,           \* what determine_effect_coeff_true returned or raised
    sampler,            \* which sampler is called
    num_sims,           \* argument of the sampler
    seed,               \* argument of the sampler: an integer or "None"
    method_kw,          \* the method= keyword the caller passes, or "absent"
    coef_file,          \* the file at coef_path: column name -> value of row 0
    cov_file,           \* the file at cov_path: its labels and its entries
    s_pc,               \* position in the sampler
    reads,              \* the files the current call has read, in order
    rng,                \* the generator of the current call
    mu,                 \* locals of the sampler
    Sigma,
    draws,
    s_result,           \* what the current call returned or raised
    s_call,             \* 1 in the first call, 2 in the repeated call
    s_first,            \* what the first call returned or raised
    fs_market_share,    \* arguments of find_slopes
    hub_size,
    effect,
    weights,
    fs_pc,              \* position in find_slopes
    columns,            \* locals of find_slopes
    hub,
    slope_mat,
    intercept_mat,
    summary_list,
    fs_result,          \* what find_slopes returned or raised
    slopes,             \* arguments of prob_values_different
    labels,
    include_diagonal,
    p_pc,               \* position in prob_values_different
    arr,                \* locals of prob_values_different
    probs,
    p_result,           \* what prob_values_different returned or raised
    db,                 \* the database load_airport_data reads
    l_pc,               \* position in load_airport_data
    merged,             \* local of load_airport_data
    l_result,           \* what load_airport_data returned or raised
    f_pc,               \* position in the first definition of determine_effect_coeff
    f_result,           \* what the first definition returned or raised
    flights_df,         \* argument of create_merger_ids, changed in place
    flights_at_entry,   \* flights_df as it was when create_merger_ids was entered
    merger_table,       \* the merger_cutoff table of the database
    merger_cutoff,      \* locals of create_merger_ids
    new_id,
    replace_log,        \* the replace_ind of every rule applied so far
    m_pc,               \* position in create_merger_ids
    w_flights,          \* argument flights_df of add_weather_data
    weather_db,         \* the weather tables of the database, by airport
    w_groups,           \* the airports add_weather_data has still to visit
    merged_chunks,      \* local of add_weather_data
    w_pc,               \* position in add_weather_data
    w_result,           \* what add_weather_data returned or raised
    flights_data,       \* the flights_data table create_sub_sample reads
    pct_subsample,      \* argument of create_sub_sample
    rowids,             \* locals of create_sub_sample
    ss_k,               \* k of create_sub_sample
    sampled,
    ss_x,               \* x, the loop variable of create_sub_sample
    chunks,
    ss_pc,              \* position in create_sub_sample
    ss_result           \* what create_sub_sample returned or raised

effect_vars ==
    <<df_inputs, random_sample, group_keys, hub_dummy_cols, pc, groups, group,
      others_by_bin, effect_list, monthly_flights, market_share,
      airport_hub_size, group_id_first_key, result>>

true_vars == <<true_params, t_pc, t_groups, results, t_result>>

sampler_args == <<sampler, num_sims, seed, method_kw, coef_file, cov_file>>

sampler_vars ==
    <<sampler_args, s_pc, reads, rng, mu, Sigma, draws, s_result, s_call, s_first>>

slopes_args == <<fs_market_share, hub_size, effect, weights>>

slopes_vars ==
    <<slopes_args, fs_pc, columns, hub, slope_mat, intercept_mat, summary_list,
      fs_result>>

dominance_args == <<slopes, labels, include_diagonal>>

dominance_vars == <<dominance_args, p_pc, arr, probs, p_result>>

analysis_vars == <<slopes_vars, dominance_vars>>

load_vars == <<db, l_pc, merged, l_result>>

first_vars == <<f_pc, f_result>>

merger_vars ==
    <<flights_df, flights_at_entry, merger_table, merger_cutoff, new_id, replace_log, m_pc>>

weather_vars == <<w_flights, weather_db, w_groups, merged_chunks, w_pc, w_result>>

sample_vars ==
    <<flights_data, pct_subsample, rowids, ss_k, sampled, ss_x, chunks, ss_pc, ss_result>>

data_vars == <<load_vars, first_vars, merger_vars, weather_vars, sample_vars>>

vars == <<effect_vars, true_vars, sampler_vars, analysis_vars, data_vars>>

NoResult == [kind |-> "none", error |-> "", value |-> <<>>]
Raise(e) == [kind |-> "raise", error |-> e, value |-> <<>>]
Return(v) == [kind |-> "return", error |-> "", value |-> v]

\* ------------------------------------------------- determine_effect_coeff
ShareOfReversed(g) == [i \in 1..Len(g) |-> g[Len(g) + 1 - i]["MarketShare"]]

\* s = group["MarketShare"].to_numpy()
ShareOf(g) == [i \in 1..Len(g) |-> g[i]["MarketShare"]]

\* I = group[list(hub_dummy_cols)].to_numpy().astype(float)
DummyOf(g, hd) == [i \in 1..Len(g) |-> [b \in 1..Len(hd) |-> g[i][hd[b]]]]

\* S_total_by_bin = (s[:, None] * I).sum(axis=0)
STotalByBin(g, hd) ==
    [b \in 1..Len(hd) |->
        SeqSum([i \in 1..Len(g) |-> ShareOf(g)[i] * DummyOf(g, hd)[i][b]])]

Comp1Undoubled(g) == [i \in 1..Len(g) |-> ShareOf(g)[i] - g[i]["HHI"]]

\* comp_1 = 2.0 * (s - hhi)
Comp1(g) == [i \in 1..Len(g) |-> 2 * (ShareOf(g)[i] - g[i]["HHI"])]

\* Removes every row that looks like row i, not row i alone.
OthersByBinByValue(g, hd) ==
    [i \in 1..Len(g) |->
        [b \in 1..Len(hd) |->
            SeqSum([j \in 1..Len(g) |->
                IF ShareOf(g)[j] = ShareOf(g)[i] /\ DummyOf(g, hd)[j] = DummyOf(g, hd)[i]
                THEN 0 ELSE ShareOf(g)[j] * DummyOf(g, hd)[j][b]])]]

\* others_by_bin = S_total_by_bin[None, :] - (s[:, None] * I)
OthersByBin(g, hd) ==
    [i \in 1..Len(g) |->
        [b \in 1..Len(hd) |->
            STotalByBin(g, hd)[b] - ShareOf(g)[i] * DummyOf(g, hd)[i][b]]]

\* comp_2 = (random_sample @ others_by_bin.T).T
Comp2(rs, others) ==
    [i \in 1..Len(others) |->
        [s \in 1..rs.shape[1] |-> Dot(rs.data[s], others[i])]]

\* effect_mat = comp_1[:, None] * comp_2
EffectMat(g, hd, rs) ==
    LET c1 == Comp1(g)
        c2 == Comp2(rs, OthersByBin(g, hd))
    IN  [i \in 1..Len(g) |-> [s \in 1..rs.shape[1] |-> c1[i] * c2[i][s]]]

Column(g, c) == [i \in 1..Len(g) |-> g[i][c]]

GroupIdLastKey(g, gk) == Column(g, gk[Len(gk)])

\* line 322: group[group_keys[0]]
GroupIdFirstKey(g, gk) == Column(g, gk[1])

SkipGroupNever(g) == Len(g) < 1

\* line 304: if len(group) <= 1: continue
SkipGroup(g) == Len(g) <= 1

RequiredNoDummies(gk, hd) == Range(gk) \cup ValueCols

\* line 292
Required(gk, hd) == Range(gk) \cup ValueCols \cup Range(hd)

ShapeMismatchFixed(rs, hd) == Ndim(rs) # 2 \/ rs.shape[2] # NumHubBins

\* line 287
ShapeMismatch(rs, hd) == Ndim(rs) # 2 \/ rs.shape[2] # Len(hd)

EmptyArraysBySamples(rs) ==
    Return(<< <<>>, <<>>, <<>>, Matrix(0, rs.shape[2], <<>>), <<>> >>)

\* lines 326-332
EmptyArrays(rs) ==
    Return(<< <<>>, <<>>, <<>>, Matrix(0, rs.shape[1], <<>>), <<>> >>)

\* lines 287-290
CheckShape ==
    /\ pc = "check_shape"
    /\ IF ShapeMismatch(random_sample, hub_dummy_cols)
       THEN /\ pc' = "raised"
            /\ result' = Raise("ValueError: random_sample shape")
       ELSE /\ pc' = "check_columns"
            /\ UNCHANGED result
    /\ UNCHANGED <<df_inputs, random_sample, group_keys, hub_dummy_cols, groups,
                   group, others_by_bin, effect_list, monthly_flights,
                   market_share, airport_hub_size, group_id_first_key, true_vars, sampler_vars, analysis_vars, data_vars>>

\* lines 292-303: the column check, the empty lists, and the groupby
CheckColumns ==
    /\ pc = "check_columns"
    /\ IF Required(group_keys, hub_dummy_cols) \ df_inputs.columns # {}
       THEN /\ pc' = "raised"
            /\ result' = Raise("ValueError: df_inputs missing columns")
            /\ UNCHANGED groups
       ELSE /\ pc' = "loop"
            /\ groups' = GroupBy(df_inputs, group_keys, TRUE)
            /\ UNCHANGED result
    /\ UNCHANGED <<df_inputs, random_sample, group_keys, hub_dummy_cols,
                   group, others_by_bin, effect_list, monthly_flights,
                   market_share, airport_hub_size, group_id_first_key, true_vars, sampler_vars, analysis_vars, data_vars>>

\* lines 303-305: a group of at most one row is skipped
LoopSkip ==
    /\ pc = "loop"
    /\ groups # <<>>
    /\ SkipGroup(Head(groups))
    /\ groups' = Tail(groups)
    /\ UNCHANGED <<df_inputs, random_sample, group_keys, hub_dummy_cols, pc,
                   group, others_by_bin, effect_list, monthly_flights,
                   market_share, airport_hub_size, group_id_first_key, result,
                   true_vars, sampler_vars, analysis_vars, data_vars>>

\* lines 307-323: one market with at least two rows
LoopBody ==
    /\ pc = "loop"
    /\ groups # <<>>
    /\ ~SkipGroup(Head(groups))
    /\ LET g == Head(groups) IN
        /\ group' = g
        /\ others_by_bin' = OthersByBin(g, hub_dummy_cols)
        /\ monthly_flights' = Append(monthly_flights, Column(g, "MonthlyFlights"))
        /\ market_share' = Append(market_share, ShareOf(g))
        /\ airport_hub_size' = Append(airport_hub_size, Column(g, "AirportHubSize"))
        /\ group_id_first_key' = Append(group_id_first_key, GroupIdFirstKey(g, group_keys))
        /\ effect_list' = Append(effect_list, EffectMat(g, hub_dummy_cols, random_sample))
    /\ groups' = Tail(groups)
    /\ UNCHANGED <<df_inputs, random_sample, group_keys, hub_dummy_cols, pc, result,
                   true_vars, sampler_vars, analysis_vars, data_vars>>

\* lines 325-340
ReturnArrays ==
    /\ pc = "loop"
    /\ groups = <<>>
    /\ pc' = "done"
    /\ result' =
         IF effect_list = <<>>
         THEN EmptyArrays(random_sample)
         ELSE LET e == Flatten(effect_list)
              IN  Return(<< Flatten(monthly_flights), Flatten(market_share),
                            Flatten(airport_hub_size),
                            Matrix(Len(e), random_sample.shape[1], e),
                            Flatten(group_id_first_key) >>)
    /\ UNCHANGED <<df_inputs, random_sample, group_keys, hub_dummy_cols, groups,
                   group, others_by_bin, effect_list, monthly_flights,
                   market_share, airport_hub_size, group_id_first_key, true_vars, sampler_vars, analysis_vars, data_vars>>

\* -------------------------------------------- determine_effect_coeff_true
TRUE_GROUP_KEYS == <<"OriginAirportID", "Year", "Month">>

hub_cols ==
    <<"AirlineHubSize_0", "AirlineHubSize_1", "AirlineHubSize_2", "AirlineHubSize_3">>

\* The columns the loop body reads from a group or from one of its rows.
TrueReads ==
    Range(hub_cols) \cup
    {"MarketShare", "HHI", "MonthlyFlights", "AirportHubSize", "AirlineHubSize",
     "OriginAirportID"}

TotalHubMarketShareUnweighted(g) ==
    [b \in 1..Len(hub_cols) |-> SeqSum([j \in 1..Len(g) |-> g[j][hub_cols[b]]])]

\* total_hub_market_share = group[hub_cols].multiply(group["MarketShare"], axis=0).sum()
TotalHubMarketShare(g) ==
    [b \in 1..Len(hub_cols) |->
        SeqSum([j \in 1..Len(g) |-> g[j][hub_cols[b]] * g[j]["MarketShare"]])]

\* lines 683-708: the output row of one row of a group
TrueRow(g, row, tp) ==
    LET comp_1 == 2 * (row["MarketShare"] - row["HHI"])
        own_hub_vector == [b \in 1..Len(hub_cols) |-> row[hub_cols[b]]]
        other_airlines_market_share ==
            [b \in 1..Len(hub_cols) |->
                TotalHubMarketShare(g)[b] - row["MarketShare"] * own_hub_vector[b]]
        comp_2 == Dot(tp, other_airlines_market_share)
    IN  [monthly_flights |-> row["MonthlyFlights"],
         market_share |-> row["MarketShare"],
         airport_hub_size |-> row["AirportHubSize"],
         airline_hub_size |-> row["AirlineHubSize"],
         hhi |-> row["HHI"],
         num_airlines |-> Len(g),
         airport_id |-> row["OriginAirportID"],
         effect |-> comp_1 * comp_2]

\* lines 671-672: num_airlines = len(group); if num_airlines <= 1: continue
TrueSkipGroup(g) == Len(g) <= 1

\* lines 652-668: the length check and the groupby (sort=False); a missing
\* key column makes groupby raise
TrueStart ==
    /\ pc \in {"done", "raised"}
    /\ t_pc = "start"
    /\ IF Len(true_params) # NumHubBins
       THEN /\ t_pc' = "raised"
            /\ t_result' = Raise("ValueError: true_params length")
            /\ UNCHANGED t_groups
       ELSE IF Range(TRUE_GROUP_KEYS) \ df_inputs.columns # {}
       THEN /\ t_pc' = "raised"
            /\ t_result' = Raise("KeyError")
            /\ UNCHANGED t_groups
       ELSE /\ t_pc' = "loop"
            /\ t_groups' = GroupBy(df_inputs, TRUE_GROUP_KEYS, FALSE)
            /\ UNCHANGED t_result
    /\ UNCHANGED <<effect_vars, true_params, results, sampler_vars, analysis_vars, data_vars>>

\* lines 670-673
TrueSkip ==
    /\ t_pc = "loop"
    /\ t_groups # <<>>
    /\ TrueSkipGroup(Head(t_groups))
    /\ t_groups' = Tail(t_groups)
    /\ UNCHANGED <<effect_vars, true_params, t_pc, results, t_result, sampler_vars, analysis_vars, data_vars>>

\* lines 675-708: one market with at least two rows; reading a column the
\* table lacks raises
TrueGroup ==
    /\ t_pc = "loop"
    /\ t_groups # <<>>
    /\ ~TrueSkipGroup(Head(t_groups))
    /\ IF TrueReads \ df_inputs.columns # {}
       THEN /\ t_pc' = "raised"
            /\ t_result' = Raise("KeyError")
            /\ UNCHANGED <<t_groups, results>>
       ELSE /\ LET g == Head(t_groups)
               IN  results' =
                     results \o [i \in 1..Len(g) |-> TrueRow(g, g[i], true_params)]
            /\ t_groups' = Tail(t_groups)
            /\ UNCHANGED <<t_pc, t_result>>
    /\ UNCHANGED <<effect_vars, true_params, sampler_vars, analysis_vars, data_vars>>

\* line 710
TrueReturn ==
    /\ t_pc = "loop"
    /\ t_groups = <<>>
    /\ t_pc' = "done"
    /\ t_result' = Return(results)
    /\ UNCHANGED <<effect_vars, true_params, t_groups, results, sampler_vars, analysis_vars, data_vars>>

\* ------------------------------------------------------------ the samplers
BASIC_REG_VARS == <<"hhiorigin", "hhidest">>

HUB_REG_VARS ==
    <<"nonhubairlineconcorigin", "smallhubairlineconcorigin",
      "mediumhubairlineconcorigin", "largehubairlineconcorigin",
      "nonhubairlineconcdest", "smallhubairlineconcdest",
      "mediumhubairlineconcdest", "largehubairlineconcdest">>

\* lines 94 and 153-162
RegVars(sm) == IF sm = "basic_random_sample" THEN BASIC_REG_VARS ELSE HUB_REG_VARS

MethodAlwaysCholesky(sm) == "cholesky"

\* lines 114 and 175: the method each sampler passes to multivariate_normal
Method(sm) == IF sm = "basic_random_sample" THEN "svd" ELSE "cholesky"

\* A seed argument: an integer, or None.
NoSeed == [none |-> TRUE, value |-> 0]
IntSeed(n) == [none |-> FALSE, value |-> n]

NoRng == [created |-> FALSE, state |-> 0, consumed |-> 0]

SeedStateIgnoringSeed(sd, entropy) == entropy

\* np.random.default_rng(seed): the generator's state is fixed by an integer
\* seed and taken from the operating system's entropy when seed is None.
SeedState(sd, entropy) == IF sd.none THEN entropy ELSE sd.value

\* Standard normal variate number k of a generator started in `state`: a
\* fixed function of the state, as in any pseudo-random generator.
StandardNormal(state, k) == ((state * 3 + k * k + k * state) % 7) - 3

IntSqrt(n) == CHOOSE r \in 0..n : r * r = n

RECURSIVE CholRow(_, _, _, _)
\* Row i of the lower Cholesky factor, given the rows L above it and the
\* entries `row` of row i found so far.
CholRow(A, L, i, row) ==
    LET j == Len(row) + 1
        sum == SeqSum([k \in 1..(j - 1) |->
                    row[k] * (IF j = i THEN row[k] ELSE L[j][k])])
    IN  IF j > i THEN row \o [k \in 1..(Len(A) - i) |-> 0]
        ELSE IF j = i THEN CholRow(A, L, i, Append(row, IntSqrt(A[i][i] - sum)))
        ELSE CholRow(A, L, i, Append(row, (A[i][j] - sum) \div L[j][j]))

RECURSIVE CholRows(_, _)
CholRows(A, L) ==
    IF Len(L) = Len(A) THEN L
    ELSE CholRows(A, Append(L, CholRow(A, L, Len(L) + 1, <<>>)))

\* np.linalg.cholesky(cov): the lower factor l with l @ l.T = cov.
Cholesky(A) == CholRows(A, <<>>)

RECURSIVE DescendingOrder(_, _)
\* The indices of a diagonal matrix's diagonal, largest entry first.
DescendingOrder(A, left) ==
    IF left = {} THEN <<>>
    ELSE LET m == CHOOSE i \in left : \A j \in left \ {i} :
                     A[i][i] > A[j][j] \/ (A[i][i] = A[j][j] /\ i < j)
         IN  <<m>> \o DescendingOrder(A, left \ {m})

\* (u, s, vh) = svd(cov); u * sqrt(s), for a diagonal cov: the singular values
\* are the diagonal entries in descending order and u permutes accordingly.
SvdFactor(A) ==
    LET order == DescendingOrder(A, DOMAIN A)
    IN  [k \in DOMAIN A |->
            [j \in DOMAIN A |-> IF k = order[j] THEN IntSqrt(A[k][k]) ELSE 0]]

\* rng.multivariate_normal(mu, Sigma, size=num_sims, method=...):
\* x = standard_normal((size, K)); mean + x @ factor.T
MultivariateNormal(m, S, size, method, state) ==
    LET K == Len(m)
        F == IF method = "cholesky" THEN Cholesky(S) ELSE SvdFactor(S)
    IN  [s \in 1..size |->
            [k \in 1..K |->
                m[k] + SeqSum([j \in 1..K |->
                           StandardNormal(state, (s - 1) * K + j) * F[k][j]])]]

BasicCombineOriginOnly(d, m) ==
    [random_sample |->
         Matrix(Len(d), NumHubBins,
                [s \in 1..Len(d) |-> [b \in 1..NumHubBins |-> d[s][1]]]),
     true_params |-> [b \in 1..NumHubBins |-> SeqSum(m)]]

\* lines 116-125
BasicCombine(d, m) ==
    LET combined == [s \in 1..Len(d) |-> SeqSum(d[s])]
    IN  [random_sample |->
             Matrix(Len(d), NumHubBins,
                    [s \in 1..Len(d) |-> [b \in 1..NumHubBins |-> combined[s]]]),
         true_params |-> [b \in 1..NumHubBins |-> SeqSum(m)]]

HubCombineShifted(d, m) ==
    [random_sample |->
         Matrix(Len(d), NumHubBins,
                [s \in 1..Len(d) |->
                    [b \in 1..NumHubBins |-> d[s][b] + d[s][b + NumHubBins - 1]]]),
     true_params |-> [b \in 1..NumHubBins |-> m[b] + m[b + NumHubBins]]]

\* lines 177-180
HubCombine(d, m) ==
    [random_sample |->
         Matrix(Len(d), NumHubBins,
                [s \in 1..Len(d) |->
                    [b \in 1..NumHubBins |-> d[s][b] + d[s][b + NumHubBins]]]),
     true_params |-> [b \in 1..NumHubBins |-> m[b] + m[b + NumHubBins]]]

InvalidNumSimsNegative(n) == n < 0

\* lines 97 and 150: if num_sims <= 0
InvalidNumSims(n) == n <= 0

\* lines 81-86 and 130-135: the parameters are coef_path, cov_path, num_sims
\* and seed, so a call that passes method= is rejected before the body runs;
\* then lines 97-98 and 150-151.
SamplerCheck ==
    /\ s_pc = "start"
    /\ IF method_kw # "absent"
       THEN /\ s_pc' = "raised"
            /\ s_result' = Raise("TypeError: unexpected keyword argument 'method'")
       ELSE IF InvalidNumSims(num_sims)
       THEN /\ s_pc' = "raised"
            /\ s_result' = Raise("ValueError: num_sims must be positive.")
       ELSE /\ s_pc' = "read_coef"
            /\ UNCHANGED s_result
    /\ UNCHANGED <<effect_vars, true_vars, analysis_vars, data_vars, sampler_args, reads, rng, mu, Sigma,
                   draws, s_call, s_first>>

\* lines 101-106 and 164-169
SamplerReadCoef ==
    /\ s_pc = "read_coef"
    /\ reads' = Append(reads, "coef_path")
    /\ IF Range(RegVars(sampler)) \ DOMAIN coef_file # {}
       THEN /\ s_pc' = "raised"
            /\ s_result' = Raise("KeyError: Missing coefficient columns")
            /\ UNCHANGED mu
       ELSE /\ s_pc' = "read_cov"
            /\ mu' = [k \in 1..Len(RegVars(sampler)) |-> coef_file[RegVars(sampler)[k]]]
            /\ UNCHANGED s_result
    /\ UNCHANGED <<effect_vars, true_vars, analysis_vars, data_vars, sampler_args, rng, Sigma, draws,
                   s_call, s_first>>

\* lines 109-110 and 171-172
SamplerReadCov ==
    /\ s_pc = "read_cov"
    /\ reads' = Append(reads, "cov_path")
    /\ IF Range(RegVars(sampler)) \ cov_file.labels # {}
       THEN /\ s_pc' = "raised"
            /\ s_result' = Raise("KeyError")
            /\ UNCHANGED Sigma
       ELSE /\ s_pc' = "draw"
            /\ Sigma' =
                 LET rv == RegVars(sampler)
                 IN  [r \in 1..Len(rv) |->
                        [c \in 1..Len(rv) |-> cov_file.entry[<<rv[r], rv[c]>>]]]
            /\ UNCHANGED s_result
    /\ UNCHANGED <<effect_vars, true_vars, analysis_vars, data_vars, sampler_args, rng, mu, draws,
                   s_call, s_first>>

\* The states the operating system's entropy can start a generator in.
Entropy == {1, 2}

\* lines 113-114 and 174-175
SamplerDraw ==
    /\ s_pc = "draw"
    /\ \E e \in Entropy :
          LET st == SeedState(seed, e) IN
          /\ rng' = [created |-> TRUE, state |-> st,
                     consumed |-> num_sims * Len(mu)]
          /\ draws' = MultivariateNormal(mu, Sigma, num_sims, Method(sampler), st)
    /\ s_pc' = "combine"
    /\ UNCHANGED <<effect_vars, true_vars, analysis_vars, data_vars, sampler_args, reads, mu, Sigma,
                   s_result, s_call, s_first>>

\* lines 116-125 and 177-180
SamplerReturn ==
    /\ s_pc = "combine"
    /\ s_pc' = "done"
    /\ s_result' = Return(IF sampler = "basic_random_sample"
                          THEN BasicCombine(draws, mu)
                          ELSE HubCombine(draws, mu))
    /\ UNCHANGED <<effect_vars, true_vars, analysis_vars, data_vars, sampler_args, reads, rng, mu, Sigma,
                   draws, s_call, s_first>>

\* The caller invokes the same sampler again with the same arguments.
SamplerCallAgain ==
    /\ s_call = 1
    /\ s_pc \in {"done", "raised"}
    /\ s_call' = 2
    /\ s_first' = s_result
    /\ s_pc' = "start"
    /\ reads' = <<>>
    /\ rng' = NoRng
    /\ mu' = <<>>
    /\ Sigma' = <<>>
    /\ draws' = <<>>
    /\ s_result' = NoResult
    /\ UNCHANGED <<effect_vars, true_vars, analysis_vars, data_vars, sampler_args>>

\* ------------------------------------------------------------- find_slopes
\* Market shares are in hundredths and effects in ten-thousandths, as in
\* determine_effect_coeff; intercepts are exact fractions of ten-thousandths
\* and slopes exact fractions of ten-thousandths per unit of market share.
Abs(n) == IF n < 0 THEN -n ELSE n

RECURSIVE Gcd(_, _)
Gcd(a, b) == IF b = 0 THEN a ELSE Gcd(b, a % b)

\* The fraction n / d in lowest terms, d # 0.
Rat(n, d) ==
    LET g == Gcd(Abs(n), Abs(d))
        sgn == IF d < 0 THEN -1 ELSE 1
    IN  [num |-> (sgn * n) \div g, den |-> (sgn * d) \div g]

RAdd(a, b) == Rat(a.num * b.den + b.num * a.den, a.den * b.den)
RSub(a, b) == Rat(a.num * b.den - b.num * a.den, a.den * b.den)
RMul(a, b) == Rat(a.num * b.num, a.den * b.den)
RLess(a, b) == a.num * b.den < b.num * a.den

RECURSIVE RSum(_)
RSum(v) == IF v = <<>> THEN Rat(0, 1) ELSE RAdd(Head(v), RSum(Tail(v)))

HubIndFrom(hs, h) ==
    LET sel == {i \in DOMAIN hs : hs[i] >= h}
    IN  [k \in 1..Cardinality(sel) |->
            CHOOSE i \in sel : Cardinality({j \in sel : j < i}) = k - 1]

\* The positions of the rows the mask hub_size == hub selects, in row order.
HubInd(hs, h) ==
    LET sel == {i \in DOMAIN hs : hs[i] = h}
    IN  [k \in 1..Cardinality(sel) |->
            CHOOSE i \in sel : Cardinality({j \in sel : j < i}) = k - 1]

\* a[hub_ind]
Take(a, ind) == [k \in 1..Len(ind) |-> a[ind[k]]]

\* X = np.concatenate([np.ones_like(ms_hub), ms_hub], axis=1)
DesignMatrix(ms_hub) == [k \in 1..Len(ms_hub) |-> <<1, ms_hub[k]>>]

ParamsSwapped(y, X, w) ==
    LET n == Len(y)
        Sw == SeqSum(w)
        Sy == SeqSum([k \in 1..n |-> w[k] * y[k]])
        Sm == SeqSum([k \in 1..n |-> w[k] * X[k][2]])
        Smm == SeqSum([k \in 1..n |-> w[k] * X[k][2] * X[k][2]])
        Smy == SeqSum([k \in 1..n |-> w[k] * X[k][2] * y[k]])
        D == Sw * Smm - Sm * Sm
    IN  IF D # 0
        THEN <<Rat(100 * (Sw * Smy - Sm * Sy), D), Rat(Smm * Sy - Sm * Smy, D)>>
        ELSE <<Rat(100 * X[1][2] * Sy, (10000 + X[1][2] * X[1][2]) * Sw),
               Rat(10000 * Sy, (10000 + X[1][2] * X[1][2]) * Sw)>>

\* results.params of a least-squares fit of y on X with weights w, which
\* statsmodels computes as pinv(sqrt(w) * X) @ (sqrt(w) * y): the solution of
\* the weighted normal equations when the shares of the stratum are not all
\* equal, and otherwise the solution of least norm, a multiple of (1, share).
\* The share column of X is in hundredths.
Params(y, X, w) ==
    LET n == Len(y)
        Sw == SeqSum(w)
        Sy == SeqSum([k \in 1..n |-> w[k] * y[k]])
        Sm == SeqSum([k \in 1..n |-> w[k] * X[k][2]])
        Smm == SeqSum([k \in 1..n |-> w[k] * X[k][2] * X[k][2]])
        Smy == SeqSum([k \in 1..n |-> w[k] * X[k][2] * y[k]])
        D == Sw * Smm - Sm * Sm
    IN  IF D # 0
        THEN <<Rat(Smm * Sy - Sm * Smy, D), Rat(100 * (Sw * Smy - Sm * Sy), D)>>
        ELSE <<Rat(10000 * Sy, (10000 + X[1][2] * X[1][2]) * Sw),
               Rat(100 * X[1][2] * Sy, (10000 + X[1][2] * X[1][2]) * Sw)>>

FitZeroFill(y, X, w) ==
    IF Len(y) = 0
    THEN [ok |-> TRUE, error |-> "", params |-> <<Rat(0, 1), Rat(0, 1)>>]
    ELSE [ok |-> TRUE, error |-> "", params |-> Params(y, X, w)]

\* OLS(effect_hub, X).fit() and WLS(effect_hub, X, weights=w_hub).fit(): the
\* model's constructor looks for the constant column with np.max(exog,
\* axis=0), which raises on a design matrix without rows.
Fit(y, X, w) ==
    IF Len(y) = 0
    THEN [ok |-> FALSE,
          error |-> "ValueError: zero-size array to reduction operation maximum which has no identity",
          params |-> <<>>]
    ELSE [ok |-> TRUE, error |-> "", params |-> Params(y, X, w)]

RECURSIVE SortRat(_)
SortRat(v) ==
    IF v = <<>> THEN <<>>
    ELSE LET i == CHOOSE i \in DOMAIN v :
                     /\ \A j \in DOMAIN v : ~RLess(v[j], v[i])
                     /\ \A j \in 1..(i - 1) : RLess(v[i], v[j])
         IN  <<v[i]>> \o SortRat([k \in 1..(Len(v) - 1) |->
                                      IF k < i THEN v[k] ELSE v[k + 1]])

\* np.percentile(v, q) with q = 2.5 * q40: linear interpolation between the
\* order statistics around position q / 100 * (len(v) - 1).
Percentile(v, q40) ==
    LET sorted == SortRat(v)
        pos == q40 * (Len(v) - 1)
        lo == (pos \div 40) + 1
    IN  IF pos % 40 = 0 THEN sorted[lo]
        ELSE RAdd(sorted[lo],
                  RMul(Rat(pos % 40, 40), RSub(sorted[lo + 1], sorted[lo])))

Mean(v) == RMul(RSum(v), Rat(1, Len(v)))

\* lines 437-448
Stats(v) ==
    [median |-> Percentile(v, 20), mean |-> Mean(v),
     p2_5 |-> Percentile(v, 1), p97_5 |-> Percentile(v, 39)]

\* A weights argument: None, or an array.
NoWeights == [none |-> TRUE, data |-> <<>>]
Weights(w) == [none |-> FALSE, data |-> w]

UnpackColumnsLenient(e) ==
    IF Len(e.shape) = 1 THEN [ok |-> TRUE, error |-> "", columns |-> 1]
    ELSE [ok |-> TRUE, error |-> "", columns |-> e.shape[2]]

\* line 398: _, columns = effect.shape
UnpackColumns(e) ==
    IF Len(e.shape) = 2 THEN [ok |-> TRUE, error |-> "", columns |-> e.shape[2]]
    ELSE IF Len(e.shape) < 2
    THEN [ok |-> FALSE, error |-> "ValueError: not enough values to unpack (expected 2)",
          columns |-> 0]
    ELSE [ok |-> FALSE, error |-> "ValueError: too many values to unpack (expected 2)",
          columns |-> 0]

\* lines 386-391
FsCheckAlign ==
    /\ fs_pc = "check_align"
    /\ IF Len(fs_market_share) # Len(hub_size) \/ Len(fs_market_share) # effect.shape[1]
       THEN /\ fs_pc' = "raised"
            /\ fs_result' = Raise("ValueError: market_share, hub_size, and effect must align")
       ELSE /\ fs_pc' = "check_weights"
            /\ UNCHANGED fs_result
    /\ UNCHANGED <<effect_vars, true_vars, sampler_vars, data_vars, dominance_vars, slopes_args,
                   columns, hub, slope_mat, intercept_mat, summary_list>>

\* lines 393-396
FsCheckWeights ==
    /\ fs_pc = "check_weights"
    /\ IF ~weights.none /\ Len(weights.data) # Len(hub_size)
       THEN /\ fs_pc' = "raised"
            /\ fs_result' = Raise("ValueError: weights must have the same length as hub_size.")
       ELSE /\ fs_pc' = "unpack"
            /\ UNCHANGED fs_result
    /\ UNCHANGED <<effect_vars, true_vars, sampler_vars, data_vars, dominance_vars, slopes_args,
                   columns, hub, slope_mat, intercept_mat, summary_list>>

\* line 398
FsUnpack ==
    /\ fs_pc = "unpack"
    /\ IF UnpackColumns(effect).ok
       THEN /\ fs_pc' = "loop"
            /\ columns' = UnpackColumns(effect).columns
            /\ UNCHANGED fs_result
       ELSE /\ fs_pc' = "raised"
            /\ fs_result' = Raise(UnpackColumns(effect).error)
            /\ UNCHANGED columns
    /\ UNCHANGED <<effect_vars, true_vars, sampler_vars, data_vars, dominance_vars, slopes_args,
                   hub, slope_mat, intercept_mat, summary_list>>

\* lines 400-449: one iteration of the loop over the four hub sizes
FsHub ==
    /\ fs_pc = "loop"
    /\ hub < NumHubBins
    /\ LET hub_ind == HubInd(hub_size, hub)
           n_obs == Len(hub_ind)
           X == DesignMatrix(Take(fs_market_share, hub_ind))
           w_hub == IF weights.none THEN [k \in 1..n_obs |-> 1]
                    ELSE Take(weights.data, hub_ind)
           fits == [c \in 1..columns |->
                       Fit([k \in 1..n_obs |-> effect.data[hub_ind[k]][c]], X, w_hub)]
           failed == {c \in 1..columns : ~fits[c].ok}
           intercept_vec == [c \in 1..columns |-> fits[c].params[1]]
           slope_vec == [c \in 1..columns |-> fits[c].params[2]]
       IN  IF ~weights.none /\ \E k \in 1..n_obs : w_hub[k] <= 0
           THEN /\ fs_pc' = "raised"
                /\ fs_result' = Raise("ValueError: Non-positive weights found for hub")
                /\ UNCHANGED <<hub, slope_mat, intercept_mat, summary_list>>
           ELSE IF failed # {}
           THEN /\ fs_pc' = "raised"
                /\ fs_result' = Raise(fits[CHOOSE c \in failed : \A d \in failed : c <= d].error)
                /\ UNCHANGED <<hub, slope_mat, intercept_mat, summary_list>>
           ELSE /\ slope_mat' = Append(slope_mat, slope_vec)
                /\ intercept_mat' = Append(intercept_mat, intercept_vec)
                /\ summary_list' = summary_list @@
                      (hub :> [n_obs |-> n_obs, intercept |-> Stats(intercept_vec),
                               slope |-> Stats(slope_vec)])
                /\ hub' = hub + 1
                /\ UNCHANGED <<fs_pc, fs_result>>
    /\ UNCHANGED <<effect_vars, true_vars, sampler_vars, data_vars, dominance_vars, slopes_args,
                   columns>>

\* line 451
FsReturn ==
    /\ fs_pc = "loop"
    /\ hub = NumHubBins
    /\ fs_pc' = "done"
    /\ fs_result' = Return(<<slope_mat, intercept_mat, summary_list>>)
    /\ UNCHANGED <<effect_vars, true_vars, sampler_vars, data_vars, dominance_vars, slopes_args,
                   columns, hub, slope_mat, intercept_mat, summary_list>>

\* --------------------------------------------------- prob_values_different
\* Not-a-number, as a mean over no draws or a diagonal entry.
NaN == [num |-> 0, den |-> 0]

\* A slopes argument: a numpy array, or a list of K arrays.
NdArray(shape, data) == [ndarray |-> TRUE, shape |-> shape, data |-> data]
ArrayList(cols) == [ndarray |-> FALSE, shape |-> <<Len(cols)>>, data |-> cols]

\* A labels argument: None, or a list.
NoLabels == [none |-> TRUE, data |-> <<>>]
Labels(l) == [none |-> FALSE, data |-> l]

\* lines 485-489: np.column_stack of the flattened arrays, which need the
\* same length.
ColumnStack(cols) ==
    IF cols = <<>> \/ \E i, j \in DOMAIN cols : Len(cols[i]) # Len(cols[j])
    THEN [ok |-> FALSE, arr |-> Matrix(0, 0, <<>>)]
    ELSE [ok |-> TRUE,
          arr |-> Matrix(Len(cols[1]), Len(cols),
                         [s \in 1..Len(cols[1]) |-> [i \in 1..Len(cols) |-> cols[i][s]]])]

ProbsOfWithTies(a) ==
    [i \in 1..a.shape[2] |-> [j \in 1..a.shape[2] |->
        IF a.shape[1] = 0 THEN NaN
        ELSE Rat(Cardinality({s \in 1..a.shape[1] : a.data[s][i] >= a.data[s][j]}),
                 a.shape[1])]]

ProbsOfTransposed(a) ==
    [i \in 1..a.shape[2] |-> [j \in 1..a.shape[2] |->
        IF a.shape[1] = 0 THEN NaN
        ELSE Rat(Cardinality({s \in 1..a.shape[1] : a.data[s][j] > a.data[s][i]}),
                 a.shape[1])]]

\* line 500: (arr[:, :, None] > arr[:, None, :]).mean(axis=0); the mean over
\* no draws is NaN.
ProbsOf(a) ==
    [i \in 1..a.shape[2] |-> [j \in 1..a.shape[2] |->
        IF a.shape[1] = 0 THEN NaN
        ELSE Rat(Cardinality({s \in 1..a.shape[1] : a.data[s][i] > a.data[s][j]}),
                 a.shape[1])]]

DiagonalValueAlwaysNaN(incl) == NaN

\* lines 504-507: the value the diagonal is filled with
DiagonalValue(incl) == IF incl THEN Rat(1, 2) ELSE NaN

\* np.fill_diagonal(df.values, v)
FillDiagonal(p, v) ==
    [i \in DOMAIN p |-> [j \in DOMAIN p[i] |-> IF i = j THEN v ELSE p[i][j]]]

\* lines 480-489
PvdStack ==
    /\ p_pc = "stack"
    /\ IF slopes.ndarray
       THEN IF Len(slopes.shape) # 2
            THEN /\ p_pc' = "raised"
                 /\ p_result' = Raise("ValueError: slopes array must be 2D (num_sims, K).")
                 /\ UNCHANGED arr
            ELSE /\ p_pc' = "labels"
                 /\ arr' = Matrix(slopes.shape[1], slopes.shape[2], slopes.data)
                 /\ UNCHANGED p_result
       ELSE IF ColumnStack(slopes.data).ok
            THEN /\ p_pc' = "labels"
                 /\ arr' = ColumnStack(slopes.data).arr
                 /\ UNCHANGED p_result
            ELSE /\ p_pc' = "raised"
                 /\ p_result' = Raise("ValueError: column_stack")
                 /\ UNCHANGED arr
    /\ UNCHANGED <<effect_vars, true_vars, sampler_vars, data_vars, slopes_vars, dominance_args,
                   probs>>

\* lines 491-496
PvdLabels ==
    /\ p_pc = "labels"
    /\ LET k == arr.shape[2]
           named == IF labels.none THEN Labels([i \in 1..k |-> i - 1]) ELSE labels
       IN  /\ labels' = named
           /\ IF Len(named.data) # k
              THEN /\ p_pc' = "raised"
                   /\ p_result' = Raise("ValueError: labels must have length K")
              ELSE /\ p_pc' = "compare"
                   /\ UNCHANGED p_result
    /\ UNCHANGED <<effect_vars, true_vars, sampler_vars, data_vars, slopes_vars, slopes,
                   include_diagonal, arr, probs>>

\* lines 498-502
PvdCompare ==
    /\ p_pc = "compare"
    /\ probs' = ProbsOf(arr)
    /\ p_pc' = "diagonal"
    /\ UNCHANGED <<effect_vars, true_vars, sampler_vars, data_vars, slopes_vars, dominance_args,
                   arr, p_result>>

\* lines 504-509: df.values is probs itself, so filling its diagonal changes
\* the frame that is returned
PvdReturn ==
    /\ p_pc = "diagonal"
    /\ probs' = FillDiagonal(probs, DiagonalValue(include_diagonal))
    /\ p_result' = Return([index |-> labels.data, columns |-> labels.data,
                           values |-> probs'])
    /\ p_pc' = "done"
    /\ UNCHANGED <<effect_vars, true_vars, sampler_vars, data_vars, slopes_vars, dominance_args,
                   arr>>

\* ------------------------------------------------------------------ inputs
\* The markets of the airport_market_info table: (OriginAirportID, Year, Month).
Keys == {<<1, 2019, 2>>, <<1, 2020, 1>>, <<2, 2019, 1>>}

\* airport_market_info: HHI and AirportHubSize of each market.
AirportMarket(k) ==
    IF k = <<1, 2019, 2>> THEN [HHI |-> 52, AirportHubSize |-> 3]
    ELSE IF k = <<1, 2020, 1>> THEN [HHI |-> 44, AirportHubSize |-> 3]
    ELSE [HHI |-> 36, AirportHubSize |-> 1]

\* What an airline-market observation can be: <<MarketShare, AirlineHubSize>>.
Profiles == {<<60, 2>>, <<40, 2>>, <<40, 0>>}

\* The row of airline-market observation number i: its market, its share and
\* its airline hub bin; MonthlyFlights is different in every row.
MkRow(i, k, share, bin) ==
    [OriginAirportID |-> k[1], Year |-> k[2], Month |-> k[3],
     MarketShare |-> share, HHI |-> AirportMarket(k).HHI,
     MonthlyFlights |-> 10 * i,
     AirportHubSize |-> AirportMarket(k).AirportHubSize,
     AirlineHubSize |-> bin,
     AirlineHubSize_0 |-> IF bin = 0 THEN 1 ELSE 0,
     AirlineHubSize_1 |-> IF bin = 1 THEN 1 ELSE 0,
     AirlineHubSize_2 |-> IF bin = 2 THEN 1 ELSE 0,
     AirlineHubSize_3 |-> IF bin = 3 THEN 1 ELSE 0]

Tables(maxn) ==
    UNION {[1..n -> Keys \X Profiles] : n \in 0..maxn}

MkTable(t, cols) ==
    DataFrame(cols,
        [i \in 1..Len(t) |->
            [c \in cols |-> MkRow(i, t[i][1], t[i][2][1], t[i][2][2])[c]]])

\* Row s of a draw matrix with ncols columns.
DrawAt(s, ncols) ==
    [b \in 1..ncols |->
        CASE b = 1 -> 3 * (s - 1)
          [] b = 2 -> 1 - s
          [] b = 3 -> 8 - 3 * s
          [] OTHER -> 7 * (s - 1) + (b - 4)]

DrawMatrix(nsims, ncols) ==
    Matrix(nsims, ncols, [s \in 1..nsims |-> DrawAt(s, ncols)])

\* Arrays that are not (num_sims, 4): 1-dimensional, 3-dimensional, or with
\* another number of columns.
BadSamples ==
    {[shape |-> <<NumHubBins>>, data |-> <<>>],
     [shape |-> <<1, NumHubBins, 1>>, data |-> <<>>]}
    \cup {DrawMatrix(m, NumHubBins - 1) : m \in 0..MaxSims}
    \cup {DrawMatrix(m, NumHubBins + 1) : m \in 0..MaxSims}

EffectStart ==
    /\ pc = "check_shape"
    /\ groups = <<>>
    /\ group = <<>>
    /\ others_by_bin = <<>>
    /\ effect_list = <<>>
    /\ monthly_flights = <<>>
    /\ market_share = <<>>
    /\ airport_hub_size = <<>>
    /\ group_id_first_key = <<>>
    /\ result = NoResult
    /\ t_pc = "start"
    /\ t_groups = <<>>
    /\ results = <<>>
    /\ t_result = NoResult

\* Well-formed calls with the default configuration: every table with MaxSims
\* draws, and the small tables with every number of draws.
InitValid ==
    /\ \E t \in Tables(MaxRows) : \E m \in 0..MaxSims :
          /\ m = MaxSims \/ Len(t) <= SmallRows
          /\ df_inputs = MkTable(t, AllColumns)
          /\ random_sample = DrawMatrix(m, NumHubBins)
    /\ group_keys = DEFAULT_GROUP_KEYS
    /\ hub_dummy_cols = DEFAULT_HUB_DUMMY_COLS
    /\ true_params = DrawAt(1, NumHubBins)

\* Calls whose draw matrix has the wrong shape.
InitBadShape ==
    /\ \E t \in Tables(SmallRows) : df_inputs = MkTable(t, AllColumns)
    /\ random_sample \in BadSamples
    /\ group_keys = DEFAULT_GROUP_KEYS
    /\ hub_dummy_cols = DEFAULT_HUB_DUMMY_COLS
    /\ \E n \in {NumHubBins - 1, NumHubBins + 1} : true_params = DrawAt(1, n)

\* Calls whose table lacks one column.
InitMissing ==
    /\ \E t \in Tables(SmallRows) : \E c \in AllColumns :
            df_inputs = MkTable(t, AllColumns \ {c})
    /\ random_sample = DrawMatrix(1, NumHubBins)
    /\ group_keys = DEFAULT_GROUP_KEYS
    /\ hub_dummy_cols = DEFAULT_HUB_DUMMY_COLS
    /\ true_params = DrawAt(2, NumHubBins)

\* Calls that configure three hub bins and one group key.
InitConfigured ==
    /\ \E t \in Tables(SmallRows) : df_inputs = MkTable(t, AllColumns)
    /\ \E m \in 0..MaxSims : \E n \in {NumHubBins - 1, NumHubBins} :
            random_sample = DrawMatrix(m, n)
    /\ group_keys = <<"OriginAirportID">>
    /\ hub_dummy_cols = SubSeq(DEFAULT_HUB_DUMMY_COLS, 1, NumHubBins - 1)
    /\ true_params = DrawAt(2, NumHubBins)

\* The regressors of the estimation output, in file order.
AllRegVars == HUB_REG_VARS \o BASIC_REG_VARS

\* Lower-triangular factors the covariance files are made from.
FactorA ==
    [i \in 1..Len(AllRegVars) |-> [j \in 1..Len(AllRegVars) |->
        IF i # j THEN 0 ELSE IF i = Len(AllRegVars) THEN 2 ELSE 1]]

FactorB ==
    [i \in 1..Len(AllRegVars) |-> [j \in 1..Len(AllRegVars) |->
        IF i = j THEN 1 + (i % 2)
        ELSE IF i <= Len(HUB_REG_VARS) /\ j = i - 1 THEN 1
        ELSE IF i = 5 /\ j = 1 THEN -1
        ELSE 0]]

IndexOf(seq, x) == CHOOSE i \in DOMAIN seq : seq[i] = x

\* The covariance file of the estimates whose covariance is L @ L.T.
CovFile(names, L) ==
    [labels |-> names,
     entry |-> [rc \in names \X names |->
                  Dot(L[IndexOf(AllRegVars, rc[1])], L[IndexOf(AllRegVars, rc[2])])]]

CoefFileA(names) == [n \in names |-> IndexOf(AllRegVars, n)]
CoefFileB(names) == [n \in names |-> 3 - 2 * IndexOf(AllRegVars, n)]

Incomplete == Range(AllRegVars) \ {"hhidest", "largehubairlineconcdest"}

\* The pairs <<coefficient file, covariance file>> the samplers are run on.
FilePairs ==
    {<<CoefFileA(Range(AllRegVars)), CovFile(Range(AllRegVars), FactorA)>>,
     <<CoefFileB(Range(AllRegVars)), CovFile(Range(AllRegVars), FactorB)>>,
     <<CoefFileA(Incomplete), CovFile(Range(AllRegVars), FactorA)>>,
     <<CoefFileA(Range(AllRegVars)), CovFile(Incomplete, FactorA)>>}

Seeds == {IntSeed(12345), IntSeed(7), NoSeed}

\* What a caller can write for the decomposition method: nothing, or
\* method="svd" or method="cholesky" as numpy's multivariate_normal takes it.
MethodKeywords == {"absent", "svd", "cholesky"}

\* load_airport_data, the first definition of determine_effect_coeff,
\* create_merger_ids, add_weather_data and create_sub_sample are not running.
LoadIdle ==
    /\ db = <<>>
    /\ l_pc = "idle"
    /\ merged = <<>>
    /\ l_result = NoResult

FirstIdle ==
    /\ f_pc = "idle"
    /\ f_result = NoResult

MergerIdle ==
    /\ flights_df = <<>>
    /\ flights_at_entry = <<>>
    /\ merger_table = <<>>
    /\ merger_cutoff = <<>>
    /\ new_id = 0
    /\ replace_log = <<>>
    /\ m_pc = "idle"

WeatherIdle ==
    /\ w_flights = <<>>
    /\ weather_db = <<>>
    /\ w_groups = <<>>
    /\ merged_chunks = <<>>
    /\ w_pc = "idle"
    /\ w_result = NoResult

SampleIdle ==
    /\ flights_data = <<>>
    /\ pct_subsample = <<0, 1>>
    /\ rowids = <<>>
    /\ ss_k = 0
    /\ sampled = <<>>
    /\ ss_x = 0
    /\ chunks = <<>>
    /\ ss_pc = "idle"
    /\ ss_result = NoResult

DataIdle == LoadIdle /\ FirstIdle /\ MergerIdle /\ WeatherIdle /\ SampleIdle

\* find_slopes is not running.
FsIdle ==
    /\ fs_market_share = <<>>
    /\ hub_size = <<>>
    /\ effect = Matrix(0, 0, <<>>)
    /\ weights = NoWeights
    /\ fs_pc = "idle"
    /\ columns = 0
    /\ hub = 0
    /\ slope_mat = <<>>
    /\ intercept_mat = <<>>
    /\ summary_list = <<>>
    /\ fs_result = NoResult

\* prob_values_different is not running.
DominanceIdle ==
    /\ slopes = ArrayList(<<>>)
    /\ labels = NoLabels
    /\ include_diagonal = FALSE
    /\ p_pc = "idle"
    /\ arr = Matrix(0, 0, <<>>)
    /\ probs = <<>>
    /\ p_result = NoResult

SamplerStart ==
    /\ s_pc = "start"
    /\ reads = <<>>
    /\ rng = NoRng
    /\ mu = <<>>
    /\ Sigma = <<>>
    /\ draws = <<>>
    /\ s_result = NoResult
    /\ s_call = 1
    /\ s_first = NoResult

\* No sampler is running.
SamplerIdle ==
    /\ sampler = "none"
    /\ num_sims = 0
    /\ seed = NoSeed
    /\ method_kw = "absent"
    /\ coef_file = <<>>
    /\ cov_file = <<>>
    /\ s_pc = "idle"
    /\ reads = <<>>
    /\ rng = NoRng
    /\ mu = <<>>
    /\ Sigma = <<>>
    /\ draws = <<>>
    /\ s_result = NoResult
    /\ s_call = 0
    /\ s_first = NoResult

\* determine_effect_coeff and determine_effect_coeff_true are not running.
EffectIdle ==
    /\ df_inputs = DataFrame({}, <<>>)
    /\ random_sample = Matrix(0, 0, <<>>)
    /\ group_keys = <<>>
    /\ hub_dummy_cols = <<>>
    /\ pc = "idle"
    /\ groups = <<>>
    /\ group = <<>>
    /\ others_by_bin = <<>>
    /\ effect_list = <<>>
    /\ monthly_flights = <<>>
    /\ market_share = <<>>
    /\ airport_hub_size = <<>>
    /\ group_id_first_key = <<>>
    /\ result = NoResult
    /\ true_params = <<>>
    /\ t_pc = "idle"
    /\ t_groups = <<>>
    /\ results = <<>>
    /\ t_result = NoResult

SamplerInit ==
    /\ EffectIdle
    /\ DataIdle
    /\ FsIdle
    /\ DominanceIdle
    /\ sampler \in {"basic_random_sample", "hub_random_sample"}
    /\ num_sims \in -1..MaxSims
    /\ seed \in Seeds
    /\ method_kw \in MethodKeywords
    /\ method_kw = "absent" \/ num_sims = MaxSims
    /\ \E f \in FilePairs : coef_file = f[1] /\ cov_file = f[2]
    /\ SamplerStart

SamplerNext ==
    \/ SamplerCheck
    \/ SamplerReadCoef
    \/ SamplerReadCov
    \/ SamplerDraw
    \/ SamplerReturn
    \/ SamplerCallAgain

SamplerSpec == SamplerInit /\ [][SamplerNext]_vars

\* ------------------------------------------------------ inputs of find_slopes
\* The market shares of the observations one hub size can have: none, one,
\* two with the same share, or MaxObs with different shares.
StratumShares == {<<>>, <<40>>, <<30, 30>>, [k \in 1..MaxObs |-> 10 * k + 5]}

\* The strata of a call: hub sizes 0..3, and 4 for the observations whose
\* hub_size is none of the four categories.
Strata ==
    {st \in [0..NumHubBins -> StratumShares] : Len(st[NumHubBins]) <= 1}

\* The observations of a call, the strata interleaved.
Observations(st) ==
    Flatten([k \in 1..MaxObs |->
        Flatten([h \in 1..(NumHubBins + 1) |->
            IF k <= Len(st[h - 1])
            THEN <<[hub |-> h - 1, k |-> k, share |-> st[h - 1][k]]>>
            ELSE <<>>])])

\* The effect of an observation in simulation s: a line in the market share
\* whose intercept and slope depend on the hub size and on s, plus a
\* disturbance when the call is noisy.
EffectOf(o, s, noisy) ==
    (3 * s + o.hub) + (s - o.hub) * o.share
      + (IF noisy THEN (o.k * o.k + s) % 3 ELSE 0)

EffectMatrix(obs, nsims, noisy) ==
    Matrix(Len(obs), nsims,
           [i \in 1..Len(obs) |-> [s \in 1..nsims |-> EffectOf(obs[i], s, noisy)]])

\* A weights array that is positive except, when bad is one of 0..4, in the
\* first observation of hub size bad, where it is 0 or -1.
WeightsOf(obs, bad) ==
    [i \in 1..Len(obs) |->
        IF obs[i].hub = bad /\ obs[i].k = 1 THEN 0 - (bad % 2) ELSE 1 + (i % 2)]

\* The weights arguments of the calls on obs: None, positive weights,
\* weights with one non-positive entry, and an array one entry short.
WeightsArgs(obs) ==
    {NoWeights} \cup {Weights(WeightsOf(obs, bad)) : bad \in -1..NumHubBins}
      \cup {Weights(SubSeq(WeightsOf(obs, -1), 1, Len(obs) - 1))}

FsStart ==
    /\ fs_pc = "check_align"
    /\ columns = 0
    /\ hub = 0
    /\ slope_mat = <<>>
    /\ intercept_mat = <<>>
    /\ summary_list = <<>>
    /\ fs_result = NoResult

\* Calls with an effect matrix (N, num_sims), num_sims >= 1.
FsInitMatrix ==
    \E st \in Strata : \E nsims \in 1..MaxSims : \E noisy \in BOOLEAN :
        LET obs == Observations(st) IN
        /\ fs_market_share = [i \in 1..Len(obs) |-> obs[i].share]
        /\ hub_size = [i \in 1..Len(obs) |-> obs[i].hub]
        /\ effect = EffectMatrix(obs, nsims, noisy)
        /\ weights \in WeightsArgs(obs)

\* Calls whose effect is a 1-dimensional array of length N, a 3-dimensional
\* array, or a matrix with one row too many.
FsInitOther ==
    \E st \in Strata :
        LET obs == Observations(st)
            e == EffectMatrix(obs, 1, FALSE)
        IN
        /\ fs_market_share = [i \in 1..Len(obs) |-> obs[i].share]
        /\ hub_size = [i \in 1..Len(obs) |-> obs[i].hub]
        /\ \/ effect = [shape |-> <<Len(obs)>>,
                         data |-> [i \in 1..Len(obs) |-> e.data[i][1]]]
           \/ effect = [shape |-> <<Len(obs), 1, 1>>,
                         data |-> [i \in 1..Len(obs) |-> <<e.data[i]>>]]
           \/ effect = EffectMatrix(Append(obs, [hub |-> 0, k |-> 1, share |-> 40]),
                                    1, FALSE)
        /\ weights \in {NoWeights, Weights(WeightsOf(obs, -1))}

FindSlopesInit ==
    /\ EffectIdle
    /\ DataIdle
    /\ SamplerIdle
    /\ DominanceIdle
    /\ FsInitMatrix \/ FsInitOther
    /\ FsStart

FindSlopesNext ==
    \/ FsCheckAlign
    \/ FsCheckWeights
    \/ FsUnpack
    \/ FsHub
    \/ FsReturn

FindSlopesSpec == FindSlopesInit /\ [][FindSlopesNext]_vars

\* ------------------------------------------- inputs of prob_values_different
\* The draws of k series in n simulations, as rows of an (n, k) array.
DrawArrays(n, k) == [1..n -> [1..k -> {0, 1}]]

\* The given labels of k series.
GivenLabels(k) == Labels([i \in 1..k |-> 10 + i])

PvdStart ==
    /\ p_pc = "stack"
    /\ arr = Matrix(0, 0, <<>>)
    /\ probs = <<>>
    /\ p_result = NoResult

\* Calls with an (n, k) array or with a list of k arrays of length n.
PvdInitDraws ==
    \E k \in 1..MaxSeries : \E n \in 0..MaxSims : \E a \in DrawArrays(n, k) :
        /\ \/ slopes = NdArray(<<n, k>>, a)
           \/ slopes = ArrayList([i \in 1..k |-> [s \in 1..n |-> a[s][i]]])
        /\ labels \in {NoLabels, GivenLabels(k), GivenLabels(k + 1)}
        /\ include_diagonal \in BOOLEAN

\* Calls with a 1-dimensional array, or with a list of arrays of different
\* lengths.
PvdInitOther ==
    /\ \/ \E n \in 0..MaxSims : slopes = NdArray(<<n>>, [s \in 1..n |-> 0])
       \/ \E k \in 2..MaxSeries : slopes = ArrayList([i \in 1..k |-> [s \in 1..i |-> 1]])
    /\ labels \in {NoLabels, GivenLabels(2)}
    /\ include_diagonal \in BOOLEAN

DominanceInit ==
    /\ EffectIdle
    /\ DataIdle
    /\ SamplerIdle
    /\ FsIdle
    /\ PvdInitDraws \/ PvdInitOther
    /\ PvdStart

DominanceNext ==
    \/ PvdStack
    \/ PvdLabels
    \/ PvdCompare
    \/ PvdReturn

DominanceSpec == DominanceInit /\ [][DominanceNext]_vars

\* ------------------------------------------------ the end-to-end scenario
\* Tables of two markets, one with three airlines that span two airline hub
\* bins and one with a single airline, the rows in any order.
ScenarioTables ==
    {t \in [1..4 -> Keys \X Profiles] :
        \E i \in 1..4 :
            /\ \A j \in 1..4 : (t[j][1] = t[i][1]) <=> (j = i)
            /\ Cardinality({t[j][1] : j \in 1..4}) = 2
            /\ Cardinality({t[j][2][2] : j \in (1..4) \ {i}}) = 2}

ScenarioInit ==
    /\ \E t \in ScenarioTables : df_inputs = MkTable(t, AllColumns)
    /\ random_sample = DrawMatrix(10, NumHubBins)
    /\ group_keys = DEFAULT_GROUP_KEYS
    /\ hub_dummy_cols = DEFAULT_HUB_DUMMY_COLS
    /\ true_params = DrawAt(1, NumHubBins)
    /\ EffectStart
    /\ SamplerIdle
    /\ FsIdle
    /\ DominanceIdle
    /\ DataIdle

\* The regressor is run on what determine_effect_coeff returned:
\* find_slopes(market_share, airport_hub_size, effect).
CallFindSlopes ==
    /\ pc = "done"
    /\ result.kind = "return"
    /\ fs_pc = "idle"
    /\ fs_market_share' = result.value[2]
    /\ hub_size' = result.value[3]
    /\ effect' = result.value[4]
    /\ weights' = NoWeights
    /\ fs_pc' = "check_align"
    /\ UNCHANGED <<effect_vars, true_vars, sampler_vars, data_vars, dominance_vars, columns, hub,
                   slope_mat, intercept_mat, summary_list, fs_result>>

\* find_slopes does not reach its return statement here: a market has one
\* airport hub size, so some hub size has no observation.
ScenarioNext ==
    \/ CheckShape
    \/ CheckColumns
    \/ LoopSkip
    \/ LoopBody
    \/ ReturnArrays
    \/ CallFindSlopes
    \/ FsCheckAlign
    \/ FsCheckWeights
    \/ FsUnpack
    \/ FsHub

ScenarioSpec == ScenarioInit /\ [][ScenarioNext]_vars

\* ------------------------------------------------------ load_airport_data
\* lines 71: the merge keys
MERGE_KEYS == <<"OriginAirportID", "Year", "Month">>

\* lines 65-66: DataFrame.rename(columns={old: new}), row by row
Rename(row, old, new) ==
    [c \in (DOMAIN row \ {old}) \cup {new} |-> IF c = new THEN row[old] ELSE row[c]]

RenameAll(rows, old, new) == [i \in DOMAIN rows |-> Rename(rows[i], old, new)]

\* validate="m:1": the merge keys must be unique in the right table
NotManyToOne(right) ==
    \E i, j \in DOMAIN right :
        i # j /\ KeyOf(right[i], MERGE_KEYS) = KeyOf(right[j], MERGE_KEYS)

\* lines 68-73: the left merge keeps every left row, in order, and takes HHI
\* and AirportHubSize from the right row of the same key, NaN without one.
MergeLeft(left, right) ==
    [i \in DOMAIN left |->
        LET m == {j \in DOMAIN right :
                    KeyOf(right[j], MERGE_KEYS) = KeyOf(left[i], MERGE_KEYS)}
        IN  left[i] @@ [c \in {"HHI", "AirportHubSize"} |->
                            IF m = {} THEN NaN ELSE right[CHOOSE j \in m : TRUE][c]]]

\* The column get_dummies names for value v: prefix, "_", and the value.
DummyName(v) ==
    CASE v = 0 -> "AirlineHubSize_0"
      [] v = 1 -> "AirlineHubSize_1"
      [] v = 2 -> "AirlineHubSize_2"
      [] v = 3 -> "AirlineHubSize_3"

\* line 76: pd.get_dummies makes one indicator column for every value that
\* occurs in the series, and none for a value that does not occur.
GetDummies(series) ==
    LET cols == {DummyName(v) : v \in Range(series)}
    IN  DataFrame(cols,
            [i \in DOMAIN series |->
                [c \in cols |-> IF c = DummyName(series[i]) THEN 1 ELSE 0]])

\* line 78: pd.concat(axis=1) of two frames with the same index
ConcatColumns(a, b) ==
    DataFrame(a.columns \cup b.columns,
              [i \in DOMAIN a.rows |-> a.rows[i] @@ b.rows[i]])

\* lines 59-73: both tables are read, HubSize is renamed in each, and the
\* airline-market rows are merged with their airport-market row.
LoadMerge ==
    /\ l_pc = "read"
    /\ LET airport_airline_market == RenameAll(db.airport_airline_market_info,
                                               "HubSize", "AirlineHubSize")
           airport_market == RenameAll(db.airport_market_info,
                                       "HubSize", "AirportHubSize")
       IN  IF NotManyToOne(airport_market)
           THEN /\ l_pc' = "raised"
                /\ l_result' = Raise("MergeError: not a many-to-one merge")
                /\ UNCHANGED merged
           ELSE /\ l_pc' = "dummies"
                /\ merged' = DataFrame(
                       Range(MERGE_KEYS) \cup {"MarketShare", "AirlineHubSize",
                           "MonthlyFlights", "HHI", "AirportHubSize"},
                       MergeLeft(airport_airline_market, airport_market))
                /\ UNCHANGED l_result
    /\ UNCHANGED <<db, effect_vars, true_vars, sampler_vars, analysis_vars,
                   first_vars, merger_vars, weather_vars, sample_vars>>

\* lines 76-78
LoadDummies ==
    /\ l_pc = "dummies"
    /\ LET hub_dummies == GetDummies(Column(merged.rows, "AirlineHubSize"))
       IN  l_result' = Return(ConcatColumns(merged, hub_dummies))
    /\ l_pc' = "done"
    /\ UNCHANGED <<db, merged, effect_vars, true_vars, sampler_vars, analysis_vars,
                   first_vars, merger_vars, weather_vars, sample_vars>>

\* The loaded dataset is handed to determine_effect_coeff with the default
\* group keys and hub dummy columns.
CallDetermineEffectCoeff ==
    /\ l_pc = "done"
    /\ pc = "idle"
    /\ df_inputs' = l_result.value
    /\ random_sample' = DrawMatrix(MaxSims, NumHubBins)
    /\ group_keys' = DEFAULT_GROUP_KEYS
    /\ hub_dummy_cols' = DEFAULT_HUB_DUMMY_COLS
    /\ pc' = "check_shape"
    /\ UNCHANGED <<groups, group, others_by_bin, effect_list, monthly_flights,
                   market_share, airport_hub_size, group_id_first_key, result,
                   true_vars, sampler_vars, analysis_vars, data_vars>>

\* The two tables of the database. airport_airline_market_info has up to
\* MaxDbRows rows in two markets, with HubSize in 0..3; airport_market_info
\* has one row for every market, or one row too many.
MaxDbRows == 4

DbKeys == {<<1, 2019, 2>>, <<2, 2019, 1>>}

AirlineMarketRow(i, k, hubsize) ==
    [OriginAirportID |-> k[1], Year |-> k[2], Month |-> k[3],
     MarketShare |-> 10 * (i + 1), HubSize |-> hubsize, MonthlyFlights |-> 10 * i]

AirportMarketRow(k) ==
    [OriginAirportID |-> k[1], Year |-> k[2], Month |-> k[3],
     HHI |-> AirportMarket(k).HHI, HubSize |-> AirportMarket(k).AirportHubSize]

AirlineMarketTables ==
    UNION {[1..n -> DbKeys \X (0..(NumHubBins - 1))] : n \in 0..MaxDbRows}

AirportMarketTables ==
    LET all == [i \in 1..Cardinality(Keys) |-> AirportMarketRow(SortKeys(Keys)[i])]
    IN  {all, Append(all, all[1])}

Databases ==
    {[airport_airline_market_info |->
          [i \in DOMAIN t |-> AirlineMarketRow(i, t[i][1], t[i][2])],
      airport_market_info |-> m] :
        t \in AirlineMarketTables, m \in AirportMarketTables}

LoadInit ==
    /\ db \in Databases
    /\ l_pc = "read"
    /\ merged = <<>>
    /\ l_result = NoResult
    /\ EffectIdle
    /\ SamplerIdle
    /\ FsIdle
    /\ DominanceIdle
    /\ FirstIdle
    /\ MergerIdle
    /\ WeatherIdle
    /\ SampleIdle

LoadNext ==
    \/ LoadMerge
    \/ LoadDummies
    \/ CallDetermineEffectCoeff
    \/ CheckShape
    \/ CheckColumns
    \/ LoopSkip
    \/ LoopBody
    \/ ReturnArrays

LoadSpec == LoadInit /\ [][LoadNext]_vars

\* ------------------------- determine_effect_coeff, the first definition
\* lines 184-185
HUB_DUMMY_COLS ==
    <<"airline_hub_bin_0", "airline_hub_bin_1", "airline_hub_bin_2", "airline_hub_bin_3">>

GROUP_KEYS == <<"OriginAirportID", "Year", "Month">>

\* line 205
FirstShapeMismatch(rs) == Ndim(rs) # 2 \/ rs.shape[2] # 4

\* lines 208-209
FirstRequired ==
    Range(GROUP_KEYS \o <<"MarketShare", "HHI", "MonthlyFlights", "AirportHubSize">>)
        \cup Range(HUB_DUMMY_COLS)

\* line 220
FirstSkipGroup(g) == Len(g) <= 1

FirstGroupIdMonth(g) == Column(g, "Month")

\* line 244
FirstGroupId(g) == Column(g, "OriginAirportID")

\* lines 223-245: the effect matrix of one market
FirstEffectMat(g, rs) ==
    LET s == [i \in 1..Len(g) |-> g[i]["MarketShare"]]
        I == [i \in 1..Len(g) |-> [b \in 1..4 |-> g[i][HUB_DUMMY_COLS[b]]]]
        S_total_by_bin == [b \in 1..4 |-> SeqSum([i \in 1..Len(g) |-> s[i] * I[i][b]])]
        comp_1 == [i \in 1..Len(g) |-> 2 * (s[i] - g[i]["HHI"])]
        others == [i \in 1..Len(g) |-> [b \in 1..4 |-> S_total_by_bin[b] - s[i] * I[i][b]]]
    IN  [i \in 1..Len(g) |->
            [n \in 1..rs.shape[1] |-> comp_1[i] * Dot(rs.data[n], others[i])]]

\* lines 219-257: the loop over the markets and the stacked arrays
FirstArrays(df, rs) ==
    LET kept == SelectSeq(GroupBy(df, GROUP_KEYS, TRUE), LAMBDA g : ~FirstSkipGroup(g))
        Stack(F(_)) == Flatten([m \in 1..Len(kept) |-> F(kept[m])])
        Flights(g) == Column(g, "MonthlyFlights")
        Share(g) == Column(g, "MarketShare")
        Hub(g) == Column(g, "AirportHubSize")
        Effect(g) == FirstEffectMat(g, rs)
        e == Stack(Effect)
    IN  IF kept = <<>>
        THEN Return(<< <<>>, <<>>, <<>>, Matrix(0, rs.shape[1], <<>>), <<>> >>)
        ELSE Return(<< Stack(Flights), Stack(Share), Stack(Hub),
                       Matrix(Len(e), rs.shape[1], e), Stack(FirstGroupId) >>)

\* lines 187-257: one call of the first definition
FirstDetermineEffectCoeff ==
    /\ f_pc = "start"
    /\ f_result' =
          IF FirstShapeMismatch(random_sample)
          THEN Raise("ValueError: random_sample shape")
          ELSE IF FirstRequired \ df_inputs.columns # {}
          THEN Raise("ValueError: df_inputs missing columns")
          ELSE FirstArrays(df_inputs, random_sample)
    /\ f_pc' = IF f_result'.kind = "raise" THEN "raised" ELSE "done"
    /\ UNCHANGED <<effect_vars, true_vars, sampler_vars, analysis_vars,
                   load_vars, merger_vars, weather_vars, sample_vars>>

\* Tables that name their hub dummy columns as the first definition does.
TwinColumns ==
    Range(GROUP_KEYS) \cup ValueCols \cup Range(HUB_DUMMY_COLS) \cup {"AirlineHubSize"}

TwinRow(i, k, share, bin) ==
    MkRow(i, k, share, bin) @@
        [c \in Range(HUB_DUMMY_COLS) |-> IF c = HUB_DUMMY_COLS[bin + 1] THEN 1 ELSE 0]

MkTwinTable(t, cols) ==
    DataFrame(cols,
        [i \in 1..Len(t) |->
            [c \in cols |-> TwinRow(i, t[i][1], t[i][2][1], t[i][2][2])[c]]])

TwinTables(maxn) == UNION {[1..n -> DbKeys \X Profiles] : n \in 0..maxn}

\* Both definitions are called on the same table and draw matrix, the second
\* with group_keys = GROUP_KEYS and hub_dummy_cols = HUB_DUMMY_COLS: every
\* table with MaxSims draws, and the small tables with every number of draws,
\* with a draw matrix of a wrong shape, or without one of the columns.
TwinInit ==
    /\ \/ \E t \in TwinTables(MaxRows) : \E m \in 0..MaxSims :
            /\ m = MaxSims \/ Len(t) <= SmallRows
            /\ df_inputs = MkTwinTable(t, TwinColumns)
            /\ random_sample = DrawMatrix(m, 4)
       \/ /\ \E t \in TwinTables(SmallRows) : df_inputs = MkTwinTable(t, TwinColumns)
          /\ random_sample \in BadSamples
       \/ /\ \E t \in TwinTables(SmallRows) : \E c \in TwinColumns :
                df_inputs = MkTwinTable(t, TwinColumns \ {c})
          /\ \E m \in 0..MaxSims : random_sample = DrawMatrix(m, 4)
    /\ group_keys = GROUP_KEYS
    /\ hub_dummy_cols = HUB_DUMMY_COLS
    /\ true_params = <<>>
    /\ EffectStart
    /\ f_pc = "start"
    /\ f_result = NoResult
    /\ SamplerIdle
    /\ FsIdle
    /\ DominanceIdle
    /\ LoadIdle
    /\ MergerIdle
    /\ WeatherIdle
    /\ SampleIdle

TwinNext ==
    \/ FirstDetermineEffectCoeff
    \/ CheckShape
    \/ CheckColumns
    \/ LoopSkip
    \/ LoopBody
    \/ ReturnArrays

TwinSpec == TwinInit /\ [][TwinNext]_vars

\* ------------------------------------------------------ create_merger_ids
\* line 978
FIRST_NEW_ID == 99999

\* line 972: year + (month - 1) / 12, counted in twelfths of a year
YearMonthOf(year, month) == 12 * year + (month - 1)

\* All orders of the rows of a table.
RECURSIVE Orders(_)
Orders(S) ==
    IF S = {} THEN {<<>>}
    ELSE UNION {{<<i>> \o o : o \in Orders(S \ {i})} : i \in S}

OrderByYearMonthAscending(table) ==
    {[i \in DOMAIN o |-> table[o[i]]] : o \in
        {o \in Orders(DOMAIN table) :
            \A i, j \in DOMAIN o : i < j => table[o[i]].YearMonth <= table[o[j]].YearMonth}}

\* lines 966-969: SELECT * FROM merger_cutoff ORDER BY -YearMonth returns the
\* rules with the latest cutoff first; rules of equal cutoff come in an order
\* the query does not fix.
OrderByYearMonthDescending(table) ==
    {[i \in DOMAIN o |-> table[o[i]]] : o \in
        {o \in Orders(DOMAIN table) :
            \A i, j \in DOMAIN o : i < j => table[o[i]].YearMonth >= table[o[j]].YearMonth}}

ReplaceIndFromCutoff(rows, rule) ==
    {i \in DOMAIN rows :
        /\ rows[i].dot_id_reporting_airline \in {rule.Continue_Airline, rule.Merged_Airline}
        /\ rows[i].YearMonth >= rule.YearMonth}

\* lines 985-988: the rows the rule recodes
ReplaceInd(rows, rule) ==
    {i \in DOMAIN rows :
        /\ rows[i].dot_id_reporting_airline \in {rule.Continue_Airline, rule.Merged_Airline}
        /\ rows[i].YearMonth > rule.YearMonth}

\* lines 965-978: the rules are read, and the columns YearMonth and
\* uniquecarrier_old are added to the caller's frame.
MergerLoad ==
    /\ m_pc = "load"
    /\ merger_cutoff' \in OrderByYearMonthDescending(merger_table)
    /\ flights_df' =
          [i \in DOMAIN flights_df |->
              flights_df[i] @@
                  [YearMonth |-> YearMonthOf(flights_df[i].year, flights_df[i].month),
                   uniquecarrier_old |-> flights_df[i].dot_id_reporting_airline]]
    /\ new_id' = FIRST_NEW_ID
    /\ m_pc' = "loop"
    /\ UNCHANGED <<flights_at_entry, merger_table, replace_log, effect_vars, true_vars,
                   sampler_vars, analysis_vars, load_vars, first_vars, weather_vars,
                   sample_vars>>

\* lines 979-990: one merger rule
MergerRule ==
    /\ m_pc = "loop"
    /\ Len(replace_log) < Len(merger_cutoff)
    /\ LET rule == merger_cutoff[Len(replace_log) + 1]
           replace_ind == ReplaceInd(flights_df, rule)
       IN  /\ flights_df' =
                 [i \in DOMAIN flights_df |->
                     IF i \in replace_ind
                     THEN [flights_df[i] EXCEPT !.dot_id_reporting_airline = new_id]
                     ELSE flights_df[i]]
           /\ replace_log' = Append(replace_log, replace_ind)
    /\ new_id' = new_id - 1
    /\ UNCHANGED <<flights_at_entry, merger_table, merger_cutoff, m_pc, effect_vars,
                   true_vars, sampler_vars, analysis_vars, load_vars, first_vars,
                   weather_vars, sample_vars>>

\* line 992
MergerReturn ==
    /\ m_pc = "loop"
    /\ Len(replace_log) = Len(merger_cutoff)
    /\ m_pc' = "done"
    /\ UNCHANGED <<flights_df, flights_at_entry, merger_table, merger_cutoff, new_id,
                   replace_log, effect_vars, true_vars, sampler_vars, analysis_vars,
                   load_vars, first_vars, weather_vars, sample_vars>>

\* Up to MaxFlights flights of two carriers, in three consecutive months, and
\* up to MaxRules merger rules with a cutoff in the first or the second of
\* these months; one pair of airlines names the id 99999.
MaxFlights == 2

MaxRules == 2

FlightMonths == {<<2019, 12>>, <<2020, 1>>, <<2020, 2>>}

FlightCarriers == {19805, 20355}

RulePairs == {<<19805, 20355>>, <<20355, 19386>>, <<99999, 19386>>}

CutoffMonths == {<<2019, 12>>, <<2020, 1>>}

FlightTables ==
    UNION {[1..n -> [year_month : FlightMonths, carrier : FlightCarriers]] :
              n \in 0..MaxFlights}

MkFlights(t) ==
    [i \in DOMAIN t |-> [year |-> t[i].year_month[1], month |-> t[i].year_month[2],
                         dot_id_reporting_airline |-> t[i].carrier]]

RuleTables ==
    UNION {[1..n -> [pair : RulePairs, cutoff : CutoffMonths]] : n \in 0..MaxRules}

MkRules(t) ==
    [i \in DOMAIN t |-> [Continue_Airline |-> t[i].pair[1],
                         Merged_Airline |-> t[i].pair[2],
                         YearMonth |-> YearMonthOf(t[i].cutoff[1], t[i].cutoff[2])]]

MergerInit ==
    /\ \E t \in FlightTables : flights_df = MkFlights(t)
    /\ flights_at_entry = flights_df
    /\ \E t \in RuleTables : merger_table = MkRules(t)
    /\ merger_cutoff = <<>>
    /\ new_id = 0
    /\ replace_log = <<>>
    /\ m_pc = "load"
    /\ EffectIdle
    /\ SamplerIdle
    /\ FsIdle
    /\ DominanceIdle
    /\ LoadIdle
    /\ FirstIdle
    /\ WeatherIdle
    /\ SampleIdle

MergerNext ==
    \/ MergerLoad
    \/ MergerRule
    \/ MergerReturn

MergerSpec == MergerInit /\ [][MergerNext]_vars

\* ------------------------------------------------------- add_weather_data
\* line 1144: timedelta(hours=2.5), time being counted in half hours
TOLERANCE == 5

\* A weather value of a merged row: the value of the matched observation, or
\* missing.
Missing == [nan |-> TRUE, value |-> 0]
Value(v) == [nan |-> FALSE, value |-> v]

RECURSIVE SortByDateTime(_)
\* sort_values("DateTime"): ascending, rows of equal DateTime in input order
SortByDateTime(rows) ==
    IF rows = <<>> THEN <<>>
    ELSE LET m == CHOOSE i \in DOMAIN rows :
                    \A j \in DOMAIN rows :
                        \/ rows[i].DateTime < rows[j].DateTime
                        \/ (rows[i].DateTime = rows[j].DateTime /\ i <= j)
         IN  <<rows[m]>> \o
                SortByDateTime([j \in 1..(Len(rows) - 1) |->
                                    IF j < m THEN rows[j] ELSE rows[j + 1]])

\* analyze_weather: the airport's weather table, sorted by DateTime
AnalyzeWeather(airport_id) == SortByDateTime(weather_db[airport_id])

\* lines 1140-1146: merge_asof(direction="backward", tolerance): the last
\* observation at or before time t, if it is no more than the tolerance
\* before t.
AsOf(t, weather) ==
    LET before == {j \in DOMAIN weather : weather[j].DateTime <= t}
    IN  IF before = {} THEN Missing
        ELSE LET last == CHOOSE j \in before : \A n \in before : n <= j
             IN  IF t - weather[last].DateTime <= TOLERANCE
                 THEN Value(weather[last].temperature)
                 ELSE Missing

MergeAsOf(left, weather) ==
    [i \in DOMAIN left |-> left[i] @@ [temperature |-> AsOf(left[i].DateTime, weather)]]

\* lines 1130-1134: the groups of the flights by origin airport
WeatherGroupBy ==
    /\ w_pc = "start"
    /\ w_groups' = GroupBy(DataFrame({"origin_airport_id", "DateTime", "flight"},
                                     w_flights),
                           <<"origin_airport_id">>, TRUE)
    /\ w_pc' = "loop"
    /\ UNCHANGED <<w_flights, weather_db, merged_chunks, w_result, effect_vars,
                   true_vars, sampler_vars, analysis_vars, load_vars, first_vars,
                   merger_vars, sample_vars>>

\* lines 1135-1148: one origin airport
WeatherMerge ==
    /\ w_pc = "loop"
    /\ w_groups # <<>>
    /\ LET airport_id == Head(w_groups)[1].origin_airport_id
           weather == SortByDateTime(AnalyzeWeather(airport_id))
           sorted == SortByDateTime(Head(w_groups))
       IN  merged_chunks' = Append(merged_chunks, MergeAsOf(sorted, weather))
    /\ w_groups' = Tail(w_groups)
    /\ UNCHANGED <<w_flights, weather_db, w_pc, w_result, effect_vars, true_vars,
                   sampler_vars, analysis_vars, load_vars, first_vars, merger_vars,
                   sample_vars>>

\* lines 1150-1152: pd.concat raises on an empty list
WeatherReturn ==
    /\ w_pc = "loop"
    /\ w_groups = <<>>
    /\ IF merged_chunks = <<>>
       THEN /\ w_result' = Raise("ValueError: No objects to concatenate")
            /\ w_pc' = "raised"
       ELSE /\ w_result' = Return(Flatten(merged_chunks))
            /\ w_pc' = "done"
    /\ UNCHANGED <<w_flights, weather_db, w_groups, merged_chunks, effect_vars,
                   true_vars, sampler_vars, analysis_vars, load_vars, first_vars,
                   merger_vars, sample_vars>>

\* Up to MaxWeatherFlights flights from two airports, and for each airport a
\* weather table with any of four observation times, stored latest first.
MaxWeatherFlights == 2

WeatherAirports == {11, 12}

FlightTimes == {10, 12}

ObservationTimes == {4, 5, 11, 16}

RECURSIVE LatestFirst(_, _)
LatestFirst(airport_id, times) ==
    IF times = {} THEN <<>>
    ELSE LET t == CHOOSE u \in times : \A v \in times : v <= u
         IN  <<[DateTime |-> t, temperature |-> 100 * airport_id + t]>>
                \o LatestFirst(airport_id, times \ {t})

WeatherFlightTables ==
    UNION {[1..n -> WeatherAirports \X FlightTimes] : n \in 0..MaxWeatherFlights}

WeatherInit ==
    /\ \E t \in WeatherFlightTables :
          w_flights = [i \in DOMAIN t |->
                          [origin_airport_id |-> t[i][1], DateTime |-> t[i][2],
                           flight |-> i]]
    /\ \E obs \in [WeatherAirports -> SUBSET ObservationTimes] :
          weather_db = [a \in WeatherAirports |-> LatestFirst(a, obs[a])]
    /\ w_groups = <<>>
    /\ merged_chunks = <<>>
    /\ w_pc = "start"
    /\ w_result = NoResult
    /\ EffectIdle
    /\ SamplerIdle
    /\ FsIdle
    /\ DominanceIdle
    /\ LoadIdle
    /\ FirstIdle
    /\ MergerIdle
    /\ SampleIdle

WeatherNext ==
    \/ WeatherGroupBy
    \/ WeatherMerge
    \/ WeatherReturn

WeatherSpec == WeatherInit /\ [][WeatherNext]_vars

\* ------------------------------------------------------ create_sub_sample
\* line 16: the default of year_min
year_min == 2004

\* line 66: range(100)
NumChunks == 100

\* Python's round() of the fraction num / den >= 0: to the nearest integer,
\* a half to the even one.
Round(num, den) ==
    LET q == num \div den
        r == num % den
    IN  IF 2 * r < den THEN q
        ELSE IF 2 * r > den THEN q + 1
        ELSE IF q % 2 = 0 THEN q ELSE q + 1

RECURSIVE SortInts(_)
\* np.sort of distinct integers
SortInts(S) ==
    IF S = {} THEN <<>>
    ELSE LET m == CHOOSE u \in S : \A v \in S : u <= v
         IN  <<m>> \o SortInts(S \ {m})

\* line 65: rmin and rmax, sampled being sorted
RMin(s) == s[1]

RMaxInclusive(s) == s[Len(s)]

RMax(s) == s[Len(s)] + 1

\* lines 67-68: int(x * (rmax - rmin) / 100) truncates the quotient
Low(xx, rmin, rmax) == rmin + ((xx * (rmax - rmin)) \div NumChunks)

High(xx, rmin, rmax) == rmin + (((xx + 1) * (rmax - rmin)) \div NumChunks)

\* lines 70-74: the rowids the range query returns, in rowid order
ReadRange(low, high) ==
    SortInts({flights_data[i].rowid : i \in
                {i \in DOMAIN flights_data :
                    /\ flights_data[i].rowid >= low
                    /\ flights_data[i].rowid < high
                    /\ flights_data[i].year >= year_min}})

\* lines 44-49: the rowids of the sampling frame
SubSampleRowids ==
    /\ ss_pc = "start"
    /\ rowids' = SelectSeq([i \in DOMAIN flights_data |-> flights_data[i].rowid],
                           LAMBDA r : \E i \in DOMAIN flights_data :
                                flights_data[i].rowid = r /\ flights_data[i].year >= year_min)
    /\ ss_pc' = "sample"
    /\ UNCHANGED <<flights_data, pct_subsample, ss_k, sampled, ss_x, chunks, ss_result,
                   effect_vars, true_vars, sampler_vars, analysis_vars, load_vars,
                   first_vars, merger_vars, weather_vars>>

\* lines 51-65: k, the sample (any k of the rowids, whatever the seed), and
\* rmin and rmax, which do not exist for an empty sample
SubSampleChoose ==
    /\ ss_pc = "sample"
    /\ ss_k' = Round(Len(rowids) * pct_subsample[1], pct_subsample[2])
    /\ \E S \in SUBSET Range(rowids) :
          /\ Cardinality(S) = ss_k'
          /\ sampled' = SortInts(S)
    /\ IF ss_k' = 0
       THEN /\ ss_pc' = "raised"
            /\ ss_result' = Raise("ValueError: zero-size array to reduction operation minimum which has no identity")
       ELSE /\ ss_pc' = "chunks"
            /\ UNCHANGED ss_result
    /\ UNCHANGED <<flights_data, pct_subsample, rowids, ss_x, chunks, effect_vars,
                   true_vars, sampler_vars, analysis_vars, load_vars, first_vars,
                   merger_vars, weather_vars>>

\* lines 66-77: one rowid range
SubSampleChunk ==
    /\ ss_pc = "chunks"
    /\ ss_x < NumChunks
    /\ LET low == Low(ss_x, RMin(sampled), RMax(sampled))
           high == High(ss_x, RMin(sampled), RMax(sampled))
           temp_df == ReadRange(low, high)
       IN  chunks' = Append(chunks,
                        [low |-> low, high |-> high,
                         rowid |-> SelectSeq(temp_df, LAMBDA r : r \in Range(sampled))])
    /\ ss_x' = ss_x + 1
    /\ UNCHANGED <<flights_data, pct_subsample, rowids, ss_k, sampled, ss_pc, ss_result,
                   effect_vars, true_vars, sampler_vars, analysis_vars, load_vars,
                   first_vars, merger_vars, weather_vars>>

\* lines 80-108
SubSampleReturn ==
    /\ ss_pc = "chunks"
    /\ ss_x = NumChunks
    /\ ss_result' = Return(<<Flatten([c \in DOMAIN chunks |-> chunks[c].rowid]),
                             Len(rowids)>>)
    /\ ss_pc' = "done"
    /\ UNCHANGED <<flights_data, pct_subsample, rowids, ss_k, sampled, ss_x, chunks,
                   effect_vars, true_vars, sampler_vars, analysis_vars, load_vars,
                   first_vars, merger_vars, weather_vars>>

\* flights_data tables whose rowids have gaps: each of the rowids
\* RowidOf(1) .. RowidOf(MaxRowids) is absent, or the row of a flight of
\* the year before year_min, or of year_min.
MaxRowids == 4

RowidOf(i) == 3 * i * i * i + i

Fractions == {<<0, 1>>, <<1, 4>>, <<1, 2>>, <<1, 1>>}

FlightsDataTables ==
    {[i \in 1..Cardinality(S) |->
        [rowid |-> SortInts({RowidOf(j) : j \in S})[i],
         year |-> y[CHOOSE j \in S : RowidOf(j) = SortInts({RowidOf(n) : n \in S})[i]]]] :
        S \in SUBSET (1..MaxRowids), y \in [1..MaxRowids -> {year_min - 1, year_min}]}

SubSampleInit ==
    /\ flights_data \in FlightsDataTables
    /\ pct_subsample \in Fractions
    /\ rowids = <<>>
    /\ ss_k = 0
    /\ sampled = <<>>
    /\ ss_x = 0
    /\ chunks = <<>>
    /\ ss_pc = "start"
    /\ ss_result = NoResult
    /\ EffectIdle
    /\ SamplerIdle
    /\ FsIdle
    /\ DominanceIdle
    /\ LoadIdle
    /\ FirstIdle
    /\ MergerIdle
    /\ WeatherIdle

SubSampleNext ==
    \/ SubSampleRowids
    \/ SubSampleChoose
    \/ SubSampleChunk
    \/ SubSampleReturn

SubSampleSpec == SubSampleInit /\ [][SubSampleNext]_vars

\* ------------------------------------------------- tables in permuted order
\* The profile of base row j, in one of two patterns.
ProfileAt(j, p) ==
    CASE (j + p) % 3 = 0 -> <<60, 2>>
      [] (j + p) % 3 = 1 -> <<40, 2>>
      [] OTHER -> <<40, 0>>

\* The orders of the rows of a base table with markets K that keep the rows
\* of every market in their relative order.
MarketOrders(K) ==
    {o \in Orders(DOMAIN K) :
        \A i, j \in DOMAIN o : (i < j /\ K[o[i]] = K[o[j]]) => o[i] < o[j]}

\* Row i of the table is base row o[i]; MonthlyFlights tells the base row.
PermutedTable(K, o, p) ==
    DataFrame(AllColumns,
        [i \in DOMAIN o |->
            [c \in AllColumns |->
                MkRow(o[i], K[o[i]], ProfileAt(o[i], p)[1], ProfileAt(o[i], p)[2])[c]]])

PermInit ==
    /\ \E n \in 0..MaxRows : \E K \in [1..n -> Keys] : \E o \in MarketOrders(K) :
       \E p \in {0, 1} :
            df_inputs = PermutedTable(K, o, p)
    /\ random_sample = DrawMatrix(MaxSims, NumHubBins)
    /\ group_keys = DEFAULT_GROUP_KEYS
    /\ hub_dummy_cols = DEFAULT_HUB_DUMMY_COLS
    /\ true_params = DrawAt(1, NumHubBins)
    /\ EffectStart
    /\ SamplerIdle
    /\ FsIdle
    /\ DominanceIdle
    /\ DataIdle

PermNext ==
    \/ CheckShape
    \/ CheckColumns
    \/ LoopSkip
    \/ LoopBody
    \/ ReturnArrays

PermSpec == PermInit /\ [][PermNext]_vars

Init ==
    /\ InitValid \/ InitBadShape \/ InitMissing \/ InitConfigured
    /\ EffectStart
    /\ SamplerIdle
    /\ FsIdle
    /\ DominanceIdle
    /\ DataIdle

Next ==
    \/ CheckShape
    \/ CheckColumns
    \/ LoopSkip
    \/ LoopBody
    \/ ReturnArrays
    \/ TrueStart
    \/ TrueSkip
    \/ TrueGroup
    \/ TrueReturn

Spec == Init /\ [][Next]_vars


\* ================================================================= claims
\* The input table as the claims see it.
InRows == df_inputs.rows

SameMarket(i, j, keys) == \A k \in Range(keys) : InRows[i][k] = InRows[j][k]

MarketSize(i, keys) ==
    Cardinality({j \in DOMAIN InRows : SameMarket(i, j, keys)})

EligibleRows(keys) == {i \in DOMAIN InRows : MarketSize(i, keys) >= 2}

\* The input row an output row was made from: MonthlyFlights is different in
\* every input row.
SourceOf(flights) == CHOOSE i \in DOMAIN InRows : InRows[i]["MonthlyFlights"] = flights

\* SUM over the other rows j of row i's market of MarketShare_j * dummy_j[b].
ExpectedOthers(i, b) ==
    SeqSum([j \in DOMAIN InRows |->
        IF j # i /\ SameMarket(i, j, group_keys)
        THEN InRows[j]["MarketShare"] * InRows[j][hub_dummy_cols[b]] ELSE 0])

ExpectedEffect(i, s) ==
    2 * (InRows[i]["MarketShare"] - InRows[i]["HHI"])
      * SeqSum([b \in 1..Len(hub_dummy_cols) |->
                    random_sample.data[s][b] * ExpectedOthers(i, b)])

NumSims == random_sample.shape[1]

Out == result.value

\* determine_effect_coeff has just returned; its result does not change
\* afterwards.
Returned == pc = "done" /\ t_pc = "start" /\ result.kind = "return"

\* C1: an observation whose market holds exactly one observation gives no
\* output row, in determine_effect_coeff and in determine_effect_coeff_true:
\* its MonthlyFlights value is in neither output, and each output has as many
\* rows as there are observations in markets of two or more.
C1_SingletonsExcluded ==
    /\ Returned =>
         /\ Len(Out[1]) = Cardinality(EligibleRows(group_keys))
         /\ \A r \in DOMAIN Out[1] : \A i \in DOMAIN InRows :
                MarketSize(i, group_keys) = 1 =>
                    Out[1][r] # InRows[i]["MonthlyFlights"]
    /\ t_result.kind = "return" =>
         /\ Len(t_result.value) = Cardinality(EligibleRows(TRUE_GROUP_KEYS))
         /\ \A r \in DOMAIN t_result.value : \A i \in DOMAIN InRows :
                MarketSize(i, TRUE_GROUP_KEYS) = 1 =>
                    t_result.value[r].monthly_flights # InRows[i]["MonthlyFlights"]

C1_Witness ==
    /\ result.kind = "return"
    /\ t_result.kind = "return"
    /\ Out[1] # <<>>
    /\ t_result.value # <<>>
    /\ \E i \in DOMAIN InRows : MarketSize(i, group_keys) = 1
    /\ \E i \in DOMAIN InRows : MarketSize(i, TRUE_GROUP_KEYS) = 1

\* The market of the worked example: two airlines with shares 0.60 and 0.40,
\* both in hub bin 2, HHI 0.52.
ExampleMarket(i) ==
    /\ MarketSize(i, group_keys) = 2
    /\ InRows[i]["HHI"] = 52
    /\ \A j \in DOMAIN InRows : SameMarket(i, j, group_keys) =>
          /\ InRows[j]["AirlineHubSize_2"] = 1
          /\ j # i => InRows[j]["MarketShare"] = 100 - InRows[i]["MarketShare"]
    /\ InRows[i]["MarketShare"] \in {40, 60}

\* C2: every returned effect[r, s] is 2 * (MarketShare_i - HHI_i) * SUM over b
\* of random_sample[s, b] * others_i[b], for the observation i of row r; in the
\* worked example with the draw [0, 0, 5, 0] the effects are 0.32 and -0.72.
C2_EffectFormula ==
    Returned =>
        \A r \in DOMAIN Out[4].data : \A s \in 1..NumSims :
            LET i == SourceOf(Out[1][r]) IN
            /\ Out[4].data[r][s] = ExpectedEffect(i, s)
            /\ (/\ ExampleMarket(i)
                /\ hub_dummy_cols = DEFAULT_HUB_DUMMY_COLS
                /\ random_sample.data[s] = <<0, 0, 5, 0>>) =>
                   Out[4].data[r][s] =
                       IF InRows[i]["MarketShare"] = 60 THEN 3200 ELSE -7200

C2_Witness ==
    /\ result.kind = "return"
    /\ NumSims >= 1
    /\ hub_dummy_cols = DEFAULT_HUB_DUMMY_COLS
    /\ random_sample.data[1] = <<0, 0, 5, 0>>
    /\ \E r1, r2 \in DOMAIN Out[4].data :
          /\ ExampleMarket(SourceOf(Out[1][r1]))
          /\ Out[4].data[r1][1] = 3200
          /\ Out[4].data[r2][1] = -7200

\* C3: after the loop body has run on a market, others_by_bin[i][b] is the sum
\* of MarketShare_j * dummy_j[b] over the rows j # i of that market.
C3_OthersExcludeOnlySelf ==
    \A i \in DOMAIN others_by_bin : \A b \in 1..Len(hub_dummy_cols) :
        others_by_bin[i][b] =
            SeqSum([j \in DOMAIN group |->
                IF j # i THEN group[j]["MarketShare"] * group[j][hub_dummy_cols[b]]
                ELSE 0])

\* A market of three in which two observations have the same share and bin.
C3_Witness ==
    /\ Len(group) = 3
    /\ Len(others_by_bin) = 3
    /\ \E i, j \in DOMAIN group :
          /\ i # j
          /\ group[i]["MarketShare"] = group[j]["MarketShare"]
          /\ group[i]["AirlineHubSize"] = group[j]["AirlineHubSize"]
          /\ others_by_bin[i][group[i]["AirlineHubSize"] + 1] >= group[j]["MarketShare"]

\* C4: the five returned arrays have N rows, N the number of observations in
\* markets of two or more; the effect matrix is N x num_sims; and row r of all
\* five comes from one and the same input observation.
C4_ParallelArrays ==
    Returned =>
        LET N == Cardinality(EligibleRows(group_keys)) IN
        /\ Len(Out[1]) = N
        /\ Len(Out[2]) = N
        /\ Len(Out[3]) = N
        /\ Len(Out[5]) = N
        /\ Out[4].shape = <<N, NumSims>>
        /\ Len(Out[4].data) = N
        /\ \A r \in 1..N :
              /\ Len(Out[4].data[r]) = NumSims
              /\ \E i \in EligibleRows(group_keys) :
                    /\ Out[1][r] = InRows[i]["MonthlyFlights"]
                    /\ Out[2][r] = InRows[i]["MarketShare"]
                    /\ Out[3][r] = InRows[i]["AirportHubSize"]
                    /\ Out[5][r] = InRows[i][group_keys[1]]
                    /\ \A s \in 1..NumSims : Out[4].data[r][s] = ExpectedEffect(i, s)
        /\ \A r1, r2 \in 1..N : r1 # r2 => Out[1][r1] # Out[1][r2]

\* Two eligible markets, so that arrays of several markets are concatenated.
C4_Witness ==
    /\ result.kind = "return"
    /\ Len(effect_list) = 2
    /\ Len(Out[1]) = 4
    /\ NumSims = 2
    /\ Out[2][1] # Out[2][2]

ValidCall ==
    /\ Ndim(random_sample) = 2
    /\ random_sample.shape[2] = Len(hub_dummy_cols)
    /\ Range(group_keys) \cup ValueCols \cup Range(hub_dummy_cols)
          \subseteq df_inputs.columns

\* C5: on a call with a well-shaped draw matrix and all required columns, if
\* no market has more than one observation (the empty table included),
\* determine_effect_coeff raises nothing and returns four empty arrays and an
\* effect matrix of shape (0, num_sims).
C5_EmptyResult ==
    (t_pc = "start" /\ ValidCall /\ EligibleRows(group_keys) = {}) =>
        /\ pc # "raised"
        /\ result.kind # "raise"
        /\ pc = "done" =>
              result = [kind |-> "return", error |-> "",
                        value |-> << <<>>, <<>>, <<>>,
                                     [shape |-> <<0, NumSims>>, data |-> <<>>],
                                     <<>> >>]

C5_Witness ==
    /\ ValidCall
    /\ EligibleRows(group_keys) = {}
    /\ InRows # <<>>
    /\ NumSims = 2
    /\ pc = "done"

C5_WitnessEmptyTable ==
    /\ ValidCall
    /\ InRows = <<>>
    /\ pc = "done"

\* C6: when the draw matrix is not 2-dimensional or its column count is not
\* the number of hub_dummy_cols, determine_effect_coeff raises the shape
\* error: it never gets to the column check or to a market, and returns
\* nothing.
C6_ShapeMismatchFails ==
    (Ndim(random_sample) # 2 \/ random_sample.shape[2] # Len(hub_dummy_cols)) =>
        /\ pc \in {"check_shape", "raised"}
        /\ pc = "raised" => result = Raise("ValueError: random_sample shape")
        /\ pc = "check_shape" => result.kind = "none"
        /\ groups = <<>>
        /\ group = <<>>
        /\ effect_list = <<>>

\* A 4-column matrix refused because three hub bins are configured.
C6_Witness ==
    /\ pc = "raised"
    /\ Ndim(random_sample) = 2
    /\ random_sample.shape[2] = NumHubBins
    /\ Len(hub_dummy_cols) # NumHubBins
    /\ InRows # <<>>

\* The columns the default configuration requires.
DefaultRequired ==
    {"OriginAirportID", "Year", "Month", "MarketShare", "HHI", "MonthlyFlights",
     "AirportHubSize", "AirlineHubSize_0", "AirlineHubSize_1", "AirlineHubSize_2",
     "AirlineHubSize_3"}

\* C7: when the table lacks a group key, MarketShare, HHI, MonthlyFlights,
\* AirportHubSize or one of the hub-dummy columns, determine_effect_coeff
\* raises: it never enters the loop over the markets and returns nothing.
C7_MissingColumnFails ==
    (/\ group_keys = DEFAULT_GROUP_KEYS
     /\ hub_dummy_cols = DEFAULT_HUB_DUMMY_COLS
     /\ DefaultRequired \ df_inputs.columns # {}) =>
        /\ pc \in {"check_shape", "check_columns", "raised"}
        /\ pc = "raised" => result.kind = "raise"
        /\ pc # "raised" => result.kind = "none"
        /\ groups = <<>>
        /\ group = <<>>
        /\ effect_list = <<>>

\* A hub-dummy column is missing and the table has a market of two.
C7_Witness ==
    /\ pc = "raised"
    /\ result = Raise("ValueError: df_inputs missing columns")
    /\ "AirlineHubSize_3" \notin df_inputs.columns
    /\ "OriginAirportID" \in df_inputs.columns
    /\ Len(InRows) = 2
    /\ InRows[1]["OriginAirportID"] = InRows[2]["OriginAirportID"]


\* C8: with num_sims <= 0 either sampler raises the invalid-argument error,
\* and has then read neither file and created no generator (so drawn no
\* random number).
C8_NumSimsChecked ==
    (sampler \in {"basic_random_sample", "hub_random_sample"} /\ num_sims <= 0) =>
        /\ s_pc \in {"start", "raised"}
        /\ s_pc = "raised" =>
              s_result = Raise("ValueError: num_sims must be positive.")
        /\ s_pc = "start" => s_result.kind = "none"
        /\ reads = <<>>
        /\ ~rng.created
        /\ rng.consumed = 0
        /\ draws = <<>>

C8_Witness ==
    /\ num_sims = 0
    /\ s_pc = "raised"
    /\ s_call = 2
    /\ s_first.kind = "raise"
    /\ sampler = "hub_random_sample"

\* C9 as claimed: two calls of a sampler with the same arguments, whatever
\* the seed argument (an integer or None), return the same random_sample and
\* the same true_params.
C9_AnySeedRepeats ==
    (s_call = 2 /\ s_pc = "done" /\ s_first.kind = "return") =>
        s_result = s_first

\* C9, amended: two calls of a sampler with the same arguments and an integer
\* seed return the same random_sample and the same true_params.
C9_IntegerSeedRepeats ==
    (s_call = 2 /\ s_pc = "done" /\ s_first.kind = "return" /\ ~seed.none) =>
        s_result = s_first

C9_Witness ==
    /\ s_call = 2
    /\ s_pc = "done"
    /\ ~seed.none
    /\ num_sims = 2
    /\ s_first.kind = "return"
    /\ s_result = s_first
    /\ s_result.value.random_sample.data[1] # s_result.value.random_sample.data[2]

\* C10: hub_random_sample returns random_sample of shape (num_sims, 4) with
\* random_sample[s, b] = draws[s, b] + draws[s, b + 4], and
\* true_params[b] = mu[b] + mu[b + 4].
C10_HubSums ==
    (sampler = "hub_random_sample" /\ s_pc = "done") =>
        LET rs == s_result.value.random_sample
            tp == s_result.value.true_params
        IN  /\ s_result.kind = "return"
            /\ rs.shape = <<num_sims, 4>>
            /\ Len(rs.data) = num_sims
            /\ Len(draws) = num_sims
            /\ Len(tp) = 4
            /\ \A b \in 1..4 : tp[b] = mu[b] + mu[b + 4]
            /\ \A s \in 1..num_sims :
                  /\ Len(rs.data[s]) = 4
                  /\ \A b \in 1..4 : rs.data[s][b] = draws[s][b] + draws[s][b + 4]

\* Two simulations whose origin and destination draws differ in every bin.
C10_Witness ==
    /\ sampler = "hub_random_sample"
    /\ s_pc = "done"
    /\ num_sims = 2
    /\ \A b \in 1..4 : draws[1][b] # draws[1][b + 4]
    /\ draws[1] # draws[2]
    /\ s_result.value.true_params = <<-6, -10, -14, -18>>

\* C11: basic_random_sample returns random_sample of shape (num_sims, 4) whose
\* four hub columns all equal draws[s, 0] + draws[s, 1], and true_params with
\* four entries all equal to mu[0] + mu[1].
C11_BasicReplicates ==
    (sampler = "basic_random_sample" /\ s_pc = "done") =>
        LET rs == s_result.value.random_sample
            tp == s_result.value.true_params
        IN  /\ s_result.kind = "return"
            /\ rs.shape = <<num_sims, 4>>
            /\ Len(rs.data) = num_sims
            /\ Len(draws) = num_sims
            /\ Len(mu) = 2
            /\ Len(tp) = 4
            /\ \A b \in 1..4 : tp[b] = mu[1] + mu[2]
            /\ \A s \in 1..num_sims :
                  /\ Len(draws[s]) = 2
                  /\ Len(rs.data[s]) = 4
                  /\ \A b \in 1..4 : rs.data[s][b] = draws[s][1] + draws[s][2]

\* Two simulations with different draws, each with a non-zero destination
\* draw.
C11_Witness ==
    /\ sampler = "basic_random_sample"
    /\ s_pc = "done"
    /\ num_sims = 2
    /\ draws[1][2] # 0
    /\ draws[2][2] # 0
    /\ draws[1][1] + draws[1][2] # draws[2][1] + draws[2][2]
    /\ s_result.value.random_sample.data[1][4] = draws[1][1] + draws[1][2]

\* Both files hold every regressor of the sampler that is called.
FilesComplete ==
    /\ Range(RegVars(sampler)) \subseteq DOMAIN coef_file
    /\ Range(RegVars(sampler)) \subseteq cov_file.labels

\* C12 as claimed: the caller selects the decomposition method per call, so
\* a call with valid arguments that names a method does not fail, and its
\* draws are made with the method it names.
C12_MethodSelectable ==
    (/\ sampler \in {"basic_random_sample", "hub_random_sample"}
     /\ method_kw # "absent"
     /\ num_sims > 0
     /\ FilesComplete) =>
        /\ s_pc # "raised"
        /\ s_pc = "done" =>
              draws = MultivariateNormal(mu, Sigma, num_sims, method_kw, rng.state)

\* C12, amended: the method is fixed by the sampler that is called, SVD in
\* basic_random_sample and Cholesky in hub_random_sample; neither sampler
\* has a method parameter, so a call that names a method raises TypeError
\* and draws nothing.
C12_MethodFixedBySampler ==
    /\ (sampler = "basic_random_sample" /\ s_pc \in {"combine", "done"}) =>
          /\ method_kw = "absent"
          /\ draws = MultivariateNormal(mu, Sigma, num_sims, "svd", rng.state)
    /\ (sampler = "hub_random_sample" /\ s_pc \in {"combine", "done"}) =>
          /\ method_kw = "absent"
          /\ draws = MultivariateNormal(mu, Sigma, num_sims, "cholesky", rng.state)
    /\ (sampler # "none" /\ method_kw # "absent" /\ s_pc # "start") =>
          /\ s_pc = "raised"
          /\ s_result = Raise("TypeError: unexpected keyword argument 'method'")
          /\ ~rng.created
          /\ draws = <<>>

\* basic_random_sample has drawn with SVD, where Cholesky would have given
\* other draws.
C12_Witness ==
    /\ sampler = "basic_random_sample"
    /\ s_pc = "done"
    /\ num_sims = 2
    /\ draws = MultivariateNormal(mu, Sigma, num_sims, "svd", rng.state)
    /\ draws # MultivariateNormal(mu, Sigma, num_sims, "cholesky", rng.state)

\* The rows of find_slopes' arguments whose hub_size is h.
StratumRows(h) == {i \in DOMAIN hub_size : hub_size[i] = h}

\* find_slopes has been called with arrays that agree on N.
FsAligned ==
    /\ fs_pc # "idle"
    /\ Len(fs_market_share) = Len(hub_size)
    /\ effect.shape[1] = Len(hub_size)
    /\ weights.none \/ Len(weights.data) = Len(hub_size)

\* C13: when weights are given to find_slopes and one of them is not strictly
\* positive, whatever the hub_size of its row, the call raises and returns
\* no slopes.
C13_NonPositiveWeightFails ==
    (/\ fs_pc # "idle"
     /\ ~weights.none
     /\ \E i \in DOMAIN weights.data : weights.data[i] <= 0) =>
        /\ fs_pc # "done"
        /\ fs_result.kind # "return"
        /\ fs_pc = "raised" => fs_result.kind = "raise"

\* C14: when a hub size h in 0..3 has no observation, find_slopes raises: it
\* never returns, and it never gets past stratum h, so that no slopes,
\* intercepts or summary statistics are made up for h.
C14_EmptyStratumFails ==
    \A h \in 0..3 :
        (fs_pc # "idle" /\ StratumRows(h) = {}) =>
            /\ fs_pc # "done"
            /\ fs_result.kind # "return"
            /\ fs_pc = "raised" => fs_result.kind = "raise"
            /\ hub <= h
            /\ Len(slope_mat) <= h
            /\ Len(intercept_mat) <= h
            /\ h \notin DOMAIN summary_list

\* Hub sizes 0 and 1 have been fitted and the regression of the empty hub
\* size 2 has raised.
C14_Witness ==
    /\ fs_pc = "raised"
    /\ fs_result =
         Raise("ValueError: zero-size array to reduction operation maximum which has no identity")
    /\ weights.none
    /\ StratumRows(2) = {}
    /\ StratumRows(3) # {}
    /\ hub = 2
    /\ Len(slope_mat) = 2
    /\ DOMAIN summary_list = {0, 1}

\* C15 as claimed: a 1-dimensional effect of length N, with every hub size
\* observed, is treated as one simulation, and find_slopes returns one slope
\* and one intercept per hub size.
C15_OneDimAccepted ==
    (/\ FsAligned
     /\ Len(effect.shape) = 1
     /\ \A h \in 0..3 : StratumRows(h) # {}
     /\ weights.none
     /\ fs_pc \in {"raised", "done"}) =>
        /\ fs_result.kind = "return"
        /\ \A h \in 1..4 : Len(slope_mat[h]) = 1 /\ Len(intercept_mat[h]) = 1

\* C15, amended: find_slopes takes effect only as a matrix (N, num_sims) and
\* then returns num_sims slopes and intercepts per hub size; a 1-dimensional
\* effect of length N raises when effect.shape is unpacked, before any hub
\* size is fitted.
C15_MatrixOnly ==
    /\ (fs_pc # "idle" /\ Len(effect.shape) = 1) =>
          /\ fs_pc \in {"check_align", "check_weights", "unpack", "raised"}
          /\ fs_pc = "raised" => fs_result.kind = "raise"
          /\ (fs_pc = "raised" /\ FsAligned) =>
                fs_result = Raise("ValueError: not enough values to unpack (expected 2)")
          /\ hub = 0
          /\ slope_mat = <<>>
          /\ intercept_mat = <<>>
    /\ fs_pc = "done" =>
          /\ Len(effect.shape) = 2
          /\ fs_result.kind = "return"
          /\ \A h \in 1..4 :
                /\ Len(slope_mat[h]) = effect.shape[2]
                /\ Len(intercept_mat[h]) = effect.shape[2]

\* A 1-dimensional effect, with every hub size observed, has been rejected.
C15_Witness ==
    /\ fs_pc = "raised"
    /\ Len(effect.shape) = 1
    /\ effect.shape[1] = Len(hub_size)
    /\ weights.none
    /\ \A h \in 0..3 : StratumRows(h) # {}
    /\ fs_result = Raise("ValueError: not enough values to unpack (expected 2)")

\* Column c of effect is exactly intercept A plus slope B per hundredth of
\* market share on the observations of hub size h.
ExactLine(h, c, A, B) ==
    \A i \in StratumRows(h) : effect.data[i][c] = A + B * fs_market_share[i]

\* C16: without weights, when the observations of hub size h have at least
\* three different market shares and effect = a + b * market_share exactly
\* on them, the intercept returned for h is a and the slope is b.
C16_ExactLineRecovered ==
    (fs_pc = "done" /\ weights.none) =>
        \A h \in 0..3 : \A c \in 1..effect.shape[2] :
            \A A \in -20..20 : \A B \in -5..5 :
                (/\ Cardinality({fs_market_share[i] : i \in StratumRows(h)}) >= 3
                 /\ ExactLine(h, c, A, B)) =>
                    /\ intercept_mat[h + 1][c] = Rat(A, 1)
                    /\ slope_mat[h + 1][c] = Rat(100 * B, 1)

\* Hub size 1 has three different shares and effect 7 + 1 * share in the
\* second simulation.
C16_Witness ==
    /\ fs_pc = "done"
    /\ weights.none
    /\ effect.shape = <<Len(hub_size), 2>>
    /\ Cardinality({fs_market_share[i] : i \in StratumRows(1)}) >= 3
    /\ ExactLine(1, 2, 7, 1)
    /\ intercept_mat[2][2] = Rat(7, 1)
    /\ slope_mat[2][2] = Rat(100, 1)

\* The slopes argument as the claims see it: the number of series, the number
\* of draws, and draw s of series i.
NumSeries == IF slopes.ndarray THEN slopes.shape[2] ELSE Len(slopes.data)
NumDraws == IF slopes.ndarray THEN slopes.shape[1] ELSE Len(slopes.data[1])
Draw(i, s) == IF slopes.ndarray THEN slopes.data[s][i] ELSE slopes.data[i][s]

\* The number of draws in which series i is above series j, and in which the
\* two are equal.
Wins(i, j) == Cardinality({s \in 1..NumDraws : Draw(i, s) > Draw(j, s)})
Ties(i, j) == Cardinality({s \in 1..NumDraws : Draw(i, s) = Draw(j, s)})

Dominance == p_result.value.values

\* C17: entry (i, j), i # j, of the returned matrix is the number of draws
\* with value_i > value_j, strictly, divided by num_sims; draws in which the
\* two are equal count for neither (i, j) nor (j, i).
C17_StrictFraction ==
    (p_pc = "done" /\ NumDraws >= 1) =>
        /\ p_result.kind = "return"
        /\ DOMAIN Dominance = 1..NumSeries
        /\ \A i, j \in 1..NumSeries :
              i # j =>
                /\ Dominance[i][j] = Rat(Wins(i, j), NumDraws)
                /\ Ties(i, j) = NumDraws =>
                      Dominance[i][j] = Rat(0, 1) /\ Dominance[j][i] = Rat(0, 1)

\* Three series of two draws: the first is above the second once and equal
\* to it once.
C17_Witness ==
    /\ p_pc = "done"
    /\ NumSeries = 3
    /\ NumDraws = 2
    /\ Wins(1, 2) = 1
    /\ Ties(1, 2) = 1
    /\ Dominance[1][2] = Rat(1, 2)
    /\ Dominance[2][1] = Rat(0, 1)
    /\ Dominance[3][2] = Rat(1, 1)

\* C18: the diagonal of the returned matrix is NaN when include_diagonal is
\* false and 0.5 when it is true; the entries off the diagonal do not depend
\* on include_diagonal.
C18_Diagonal ==
    p_pc = "done" =>
        \A i, j \in 1..NumSeries :
            Dominance[i][j] =
                IF i = j THEN (IF include_diagonal THEN Rat(1, 2) ELSE NaN)
                ELSE IF NumDraws = 0 THEN NaN
                ELSE Rat(Wins(i, j), NumDraws)

C18_Witness ==
    /\ p_pc = "done"
    /\ include_diagonal
    /\ NumSeries = 3
    /\ NumDraws = 2
    /\ \A i \in 1..3 : Dominance[i][i] = Rat(1, 2)
    /\ Dominance[1][2] = Rat(1, 1)
    /\ Dominance[2][3] = Rat(0, 1)

\* An entry is NaN or lies in [0, 1].
InUnitOrNaN(x) == x = NaN \/ (x.den > 0 /\ 0 <= x.num /\ x.num <= x.den)

\* C19 as claimed: every entry is in [0, 1] or NaN, and
\* dominance[i, j] + dominance[j, i] = 1 for all i # j.
C19_SumsToOne ==
    (p_pc = "done" /\ NumDraws >= 1) =>
        \A i, j \in 1..NumSeries :
            /\ InUnitOrNaN(Dominance[i][j])
            /\ i # j => RAdd(Dominance[i][j], Dominance[j][i]) = Rat(1, 1)

\* C19, amended: every entry is in [0, 1] or NaN, and for i # j
\* dominance[i, j] + dominance[j, i] = 1 - (the fraction of draws in which
\* value_i = value_j): at most 1, and 1 exactly when no draw is a tie.
C19_SumsToOneLessTies ==
    p_pc = "done" =>
        \A i, j \in 1..NumSeries :
            /\ InUnitOrNaN(Dominance[i][j])
            /\ (i # j /\ NumDraws >= 1) =>
                  LET sum == RAdd(Dominance[i][j], Dominance[j][i]) IN
                  /\ sum = Rat(NumDraws - Ties(i, j), NumDraws)
                  /\ ~RLess(Rat(1, 1), sum)
                  /\ sum = Rat(1, 1) <=> Ties(i, j) = 0

\* Two series that are equal in one of two draws: the two entries sum to 1/2.
C19_Witness ==
    /\ p_pc = "done"
    /\ NumSeries = 2
    /\ NumDraws = 2
    /\ Ties(1, 2) = 1
    /\ RAdd(Dominance[1][2], Dominance[2][1]) = Rat(1, 2)
    /\ Dominance[1][1] = NaN

\* The hub sizes 0..3 that have an observation in find_slopes' arguments.
NonEmptyStrata == {h \in 0..3 : StratumRows(h) # {}}

\* C20: in the scenario of two markets (three airlines in two hub bins, and
\* one airline) with num_sims = 10, determine_effect_coeff returns exactly
\* three rows, effect of shape (3, 10), all of them rows of the three-airline
\* market, and find_slopes run on that output has at most two hub sizes with
\* observations.
C20_EndToEnd ==
    /\ pc = "done" =>
          /\ result.kind = "return"
          /\ \A a \in {1, 2, 3, 5} : Len(Out[a]) = 3
          /\ Out[4].shape = <<3, 10>>
          /\ Len(Out[4].data) = 3
          /\ \A r \in 1..3 :
                /\ Len(Out[4].data[r]) = 10
                /\ MarketSize(SourceOf(Out[1][r]), group_keys) = 3
                /\ Out[2][r] = InRows[SourceOf(Out[1][r])]["MarketShare"]
                /\ Out[3][r] = InRows[SourceOf(Out[1][r])]["AirportHubSize"]
          /\ Cardinality({SourceOf(Out[1][r]) : r \in 1..3}) = 3
    /\ fs_pc # "idle" =>
          /\ pc = "done"
          /\ fs_market_share = Out[2]
          /\ hub_size = Out[3]
          /\ effect = Out[4]
          /\ Cardinality(NonEmptyStrata) <= 2

\* find_slopes has met the first hub size without observations; the three
\* returned rows are of airport hub size 3 and of two airline hub bins.
C20_Witness ==
    /\ pc = "done"
    /\ fs_pc = "raised"
    /\ Len(InRows) = 4
    /\ Out[4].shape = <<3, 10>>
    /\ NonEmptyStrata = {3}
    /\ Cardinality({InRows[SourceOf(Out[1][r])]["AirlineHubSize"] : r \in 1..3}) = 2
    /\ Out[4].data[1][10] # Out[4].data[1][9]

\* determine_effect_coeff_true's output rows.
TrueOut == t_result.value

\* C21: for a length-4 true_params, determine_effect_coeff_true returns one
\* scalar effect per eligible observation, for the same observations as
\* determine_effect_coeff, and the scalar equals the entry effect[i, 0] that
\* determine_effect_coeff computes for that observation from a draw matrix
\* whose row 0 is true_params.
C21_TrueMatchesFirstDraw ==
    (/\ t_pc = "done"
     /\ pc = "done"
     /\ group_keys = DEFAULT_GROUP_KEYS
     /\ hub_dummy_cols = DEFAULT_HUB_DUMMY_COLS
     /\ NumSims >= 1
     /\ random_sample.data[1] = true_params) =>
        /\ t_result.kind = "return"
        /\ result.kind = "return"
        /\ Len(TrueOut) = Len(Out[1])
        /\ {TrueOut[r].monthly_flights : r \in DOMAIN TrueOut} = Range(Out[1])
        /\ Range(Out[1]) = {InRows[i]["MonthlyFlights"] : i \in EligibleRows(group_keys)}
        /\ \A r \in DOMAIN TrueOut : \A q \in DOMAIN Out[1] :
              TrueOut[r].monthly_flights = Out[1][q] =>
                  TrueOut[r].effect = Out[4].data[q][1]

\* Two markets of two airlines that the two functions emit in different
\* orders; row 0 of the draw matrix is true_params and an effect is not 0.
C21_Witness ==
    /\ t_pc = "done"
    /\ pc = "done"
    /\ NumSims >= 1
    /\ random_sample.data[1] = true_params
    /\ Len(TrueOut) = 4
    /\ TrueOut[1].monthly_flights # Out[1][1]
    /\ \E r \in 1..4 : TrueOut[r].effect # 0
    /\ TrueOut[1].effect = Out[4].data[3][1]

\* --------------------------------------------------------------------- C22
Loaded == l_result.value

HubSizesInRange ==
    \A i \in DOMAIN db.airport_airline_market_info :
        db.airport_airline_market_info[i].HubSize \in 0..3

\* C22: for every database whose AirlineHubSize values lie in 0..3, the
\* dataset load_airport_data returns has all four indicator columns
\* AirlineHubSize_0 .. AirlineHubSize_3, and determine_effect_coeff with the
\* default hub_dummy_cols does not fail on it with a missing-column error.
C22_AllIndicatorColumns ==
    (l_pc = "done" /\ HubSizesInRange) =>
        /\ l_result.kind = "return"
        /\ Range(DEFAULT_HUB_DUMMY_COLS) \subseteq Loaded.columns
        /\ pc = "raised" => result # Raise("ValueError: df_inputs missing columns")

\* --------------------------------------------------------------------- C23
BothFinished == pc \in {"done", "raised"} /\ f_pc \in {"done", "raised"}

\* C23: on every table and draw matrix, the first definition of
\* determine_effect_coeff and the second one called with group_keys =
\* GROUP_KEYS and hub_dummy_cols = HUB_DUMMY_COLS return the same five arrays,
\* and one fails exactly when the other does, with the same error.
C23_DefinitionsAgree ==
    (BothFinished /\ group_keys = GROUP_KEYS /\ hub_dummy_cols = HUB_DUMMY_COLS) =>
        f_result = result

C23_Witness ==
    /\ BothFinished
    /\ group_keys = GROUP_KEYS /\ hub_dummy_cols = HUB_DUMMY_COLS
    /\ f_result.kind = "return"
    /\ Len(f_result.value[1]) = 4
    /\ f_result.value[5] = <<1, 1, 2, 2>>
    /\ \E r \in 1..4 : f_result.value[4].data[r][2] # 0

C23_WitnessBothFail ==
    /\ BothFinished
    /\ f_result = Raise("ValueError: df_inputs missing columns")
    /\ "airline_hub_bin_2" \notin df_inputs.columns
\* --------------------------------------------------------------------- C24
\* The synthetic id of the j-th rule applied.
SyntheticId(j) == FIRST_NEW_ID - (j - 1)

RecodedBy(i) == {j \in DOMAIN replace_log : i \in replace_log[j]}

Carrier(i) == flights_df[i].dot_id_reporting_airline

SameIdSameRule ==
    m_pc \in {"loop", "done"} =>
        \A j \in DOMAIN replace_log : \A i1, i2 \in DOMAIN flights_df :
            (Carrier(i1) = SyntheticId(j) /\ Carrier(i2) = SyntheticId(j)) =>
                (j \in RecodedBy(i1) /\ j \in RecodedBy(i2))

RecodedOnlyIfMatching ==
    (m_pc = "loop" /\ replace_log' # replace_log) =>
        LET j == Len(replace_log')
            rule == merger_cutoff[j]
        IN  /\ new_id = SyntheticId(j)
            /\ \A i \in DOMAIN flights_df :
                  IF i \in replace_log'[j]
                  THEN /\ Carrier(i) \in {rule.Continue_Airline, rule.Merged_Airline}
                       /\ flights_df[i].YearMonth > rule.YearMonth
                       /\ flights_df'[i].dot_id_reporting_airline = SyntheticId(j)
                  ELSE flights_df'[i] = flights_df[i]

\* C24: two flights carry the same synthetic id (99999, 99998, ... in the
\* order the rules are applied) only if both were recoded by the rule of that
\* id, and a rule recodes a flight only if the flight's carrier is the rule's
\* continuing or merged airline and its YearMonth is strictly greater than the
\* rule's cutoff.
C24_OneIdPerRule == [](SameIdSameRule) /\ [][RecodedOnlyIfMatching]_vars

C24_Witness ==
    /\ m_pc = "done"
    /\ Len(merger_cutoff) = 2
    /\ Len(flights_df) = 2
    /\ Carrier(1) = SyntheticId(2) /\ Carrier(2) = SyntheticId(2)
    /\ flights_df[1].uniquecarrier_old # flights_df[2].uniquecarrier_old
    /\ replace_log = <<{}, {1, 2}>>
    /\ \E i \in 1..2 : flights_df[i].YearMonth = merger_cutoff[1].YearMonth

\* --------------------------------------------------------------------- C30
RuleIds(j) == {merger_cutoff[j].Continue_Airline, merger_cutoff[j].Merged_Airline}

\* No synthetic id is an airline id named in a rule.
NoSyntheticIdInRules ==
    \A j, n \in DOMAIN merger_cutoff : SyntheticId(n) \notin RuleIds(j)

\* The rules a flight matches by its carrier and YearMonth at entry.
Matching(i) ==
    {j \in DOMAIN merger_cutoff :
        /\ flights_at_entry[i].dot_id_reporting_airline \in RuleIds(j)
        /\ YearMonthOf(flights_at_entry[i].year, flights_at_entry[i].month)
              > merger_cutoff[j].YearMonth}

\* C30: the rules are applied in descending cutoff order; provided no
\* synthetic id is an airline id named in a rule, every flight is recoded at
\* most once, a flight that matches one or several rules ends with the
\* synthetic id of a matching rule of the latest cutoff, and a flight that
\* matches none keeps its carrier; uniquecarrier_old of every flight is the
\* carrier id the flight had when the function was entered.
C30_RecodedOnceLatestCutoff ==
    m_pc = "done" =>
        /\ \A j, n \in DOMAIN merger_cutoff :
              j < n => merger_cutoff[j].YearMonth >= merger_cutoff[n].YearMonth
        /\ Len(replace_log) = Len(merger_cutoff)
        /\ DOMAIN flights_df = DOMAIN flights_at_entry
        /\ \A i \in DOMAIN flights_df :
              flights_df[i].uniquecarrier_old
                  = flights_at_entry[i].dot_id_reporting_airline
        /\ NoSyntheticIdInRules =>
              \A i \in DOMAIN flights_df :
                  /\ Cardinality(RecodedBy(i)) <= 1
                  /\ IF Matching(i) = {}
                     THEN /\ RecodedBy(i) = {}
                          /\ Carrier(i) = flights_at_entry[i].dot_id_reporting_airline
                     ELSE \E j \in Matching(i) :
                            /\ \A n \in Matching(i) :
                                  merger_cutoff[j].YearMonth >= merger_cutoff[n].YearMonth
                            /\ RecodedBy(i) = {j}
                            /\ Carrier(i) = SyntheticId(j)

C30_Witness ==
    /\ m_pc = "done"
    /\ NoSyntheticIdInRules
    /\ \E i \in DOMAIN flights_df :
          /\ Matching(i) = {1, 2}
          /\ merger_cutoff[1].YearMonth > merger_cutoff[2].YearMonth
          /\ Carrier(i) = FIRST_NEW_ID
          /\ flights_df[i].uniquecarrier_old = 20355
\* --------------------------------------------------------------------- C25
\* The observations of a flight's origin airport within the tolerance of the
\* flight's time, earlier or later.
InWindow(f) ==
    {o \in Range(weather_db[f.origin_airport_id]) :
        Abs(o.DateTime - f.DateTime) <= TOLERANCE}

NearestInWindow(f) ==
    {o \in InWindow(f) :
        \A n \in InWindow(f) : Abs(o.DateTime - f.DateTime) <= Abs(n.DateTime - f.DateTime)}

\* C25: every input flight appears exactly once in the output; it carries the
\* weather of a nearest observation of its origin airport within 2.5 hours
\* before or after its time, and missing weather if the window is empty.
C25_NearestEitherSide ==
    w_pc = "done" =>
        \A i \in DOMAIN w_flights :
            /\ Cardinality({r \in DOMAIN w_result.value :
                              w_result.value[r].flight = i}) = 1
            /\ \A r \in DOMAIN w_result.value :
                  w_result.value[r].flight = i =>
                      IF InWindow(w_flights[i]) = {}
                      THEN w_result.value[r].temperature = Missing
                      ELSE \E o \in NearestInWindow(w_flights[i]) :
                              w_result.value[r].temperature = Value(o.temperature)
\* --------------------------------------------------------------------- C26
Frame == ss_result.value[1]

\* C26: with k >= 1 sampled rowids, the 100 rowid ranges [low, high) start at
\* the smallest sampled rowid, each begins where the one before ends, and the
\* last ends just after the largest sampled rowid; every sampled rowid is
\* read in exactly one chunk, and the returned frame has exactly k rows, one
\* for every sampled rowid.
C26_ChunksPartition ==
    (ss_pc = "done" /\ ss_k >= 1) =>
        /\ Len(chunks) = NumChunks
        /\ Len(sampled) = ss_k
        /\ chunks[1].low = sampled[1]
        /\ chunks[NumChunks].high = sampled[ss_k] + 1
        /\ \A c \in 1..NumChunks : chunks[c].low <= chunks[c].high
        /\ \A c \in 1..(NumChunks - 1) : chunks[c].high = chunks[c + 1].low
        /\ \A s \in 1..ss_k :
              Cardinality({c \in 1..NumChunks :
                  /\ chunks[c].low <= sampled[s] /\ sampled[s] < chunks[c].high
                  /\ \E r \in DOMAIN chunks[c].rowid : chunks[c].rowid[r] = sampled[s]}) = 1
        /\ Len(Frame) = ss_k
        /\ \A s \in 1..ss_k :
              Cardinality({r \in DOMAIN Frame : Frame[r] = sampled[s]}) = 1

C26_Witness ==
    /\ ss_pc = "done"
    /\ ss_k = 3
    /\ Len(rowids) = 3
    /\ Len(flights_data) = 4
    /\ sampled[3] - sampled[1] > NumChunks
    /\ Frame = sampled
    /\ \E c \in 2..(NumChunks - 1) : chunks[c].rowid = <<sampled[2]>>
    /\ \E c \in 2..(NumChunks - 1) : chunks[c].rowid = <<>> /\ chunks[c].low < chunks[c].high
\* --------------------------------------------------------------------- C27
MarketKey(i) == KeyOf(InRows[i], group_keys)

\* Row i comes before row j in the canonical order: by ascending market key,
\* and within a market by base row, whatever the positions of the rows.
CanonBefore(i, j) ==
    \/ LexLess(MarketKey(i), MarketKey(j))
    \/ /\ MarketKey(i) = MarketKey(j)
       /\ InRows[i]["MonthlyFlights"] < InRows[j]["MonthlyFlights"]

RECURSIVE CanonOrder(_)
CanonOrder(S) ==
    IF S = {} THEN <<>>
    ELSE LET m == CHOOSE i \in S : \A j \in S \ {i} : CanonBefore(i, j)
         IN  <<m>> \o CanonOrder(S \ {m})

Canon == CanonOrder(EligibleRows(group_keys))

\* C27: whatever the order of the input rows, the output lists the eligible
\* markets by ascending key (OriginAirportID, Year, Month) and the rows of a
\* market in input order; so the five outputs are those of the canonical
\* order of the rows, the same for every permutation of the table that keeps
\* the rows of each market in their relative order.
C27_OrderAndPermutation ==
    (pc = "done" /\ result.kind = "return") =>
        /\ Len(Out[1]) = Len(Canon)
        /\ \A r1, r2 \in DOMAIN Out[1] :
              r1 < r2 =>
                  LET i == SourceOf(Out[1][r1])
                      j == SourceOf(Out[1][r2])
                  IN  \/ LexLess(MarketKey(i), MarketKey(j))
                      \/ (MarketKey(i) = MarketKey(j) /\ i < j)
        /\ \A r \in DOMAIN Out[1] :
              /\ Out[1][r] = InRows[Canon[r]]["MonthlyFlights"]
              /\ Out[2][r] = InRows[Canon[r]]["MarketShare"]
              /\ Out[3][r] = InRows[Canon[r]]["AirportHubSize"]
              /\ Out[5][r] = InRows[Canon[r]]["OriginAirportID"]
              /\ Out[4].data[r] = [s \in 1..NumSims |-> ExpectedEffect(Canon[r], s)]

\* A permuted table: the rows of the second market in key order come first,
\* interleaved with the rows of the first one.
C27_Witness ==
    /\ pc = "done" /\ result.kind = "return"
    /\ Column(InRows, "MonthlyFlights") = <<30, 10, 40, 20>>
    /\ Out[1] = <<10, 20, 30, 40>>
    /\ Out[5] = <<1, 1, 1, 1>>
    /\ \E r \in 1..4 : Out[4].data[r][2] # 0
\* --------------------------------------------------------------------- C28
\* C28: the fifth array holds, for every output row, the value of the first
\* group key of its input row and nothing else of the market: rows of
\* different markets of one airport carry equal identifiers, and rows with
\* different identifiers are rows of different markets.
C28_FirstKeyOnly ==
    (pc = "done" /\ result.kind = "return") =>
        /\ Len(Out[5]) = Len(Out[1])
        /\ \A r \in DOMAIN Out[5] :
              Out[5][r] = InRows[SourceOf(Out[1][r])][group_keys[1]]
        /\ \A r1, r2 \in DOMAIN Out[5] :
              LET i == SourceOf(Out[1][r1])
                  j == SourceOf(Out[1][r2])
              IN  /\ InRows[i][group_keys[1]] = InRows[j][group_keys[1]]
                        => Out[5][r1] = Out[5][r2]
                  /\ Out[5][r1] # Out[5][r2] => MarketKey(i) # MarketKey(j)

\* Two markets of airport 1: their rows carry the same identifier.
C28_Witness ==
    /\ pc = "done" /\ result.kind = "return"
    /\ group_keys = DEFAULT_GROUP_KEYS
    /\ Len(Out[5]) = 4
    /\ \E r1, r2 \in DOMAIN Out[5] :
          /\ MarketKey(SourceOf(Out[1][r1])) # MarketKey(SourceOf(Out[1][r2]))
          /\ Out[5][r1] = Out[5][r2]
\* --------------------------------------------------------------------- C29
\* The rows of a find_slopes call, and those of hub size h alone.
FsRows ==
    [i \in DOMAIN hub_size |->
        [share |-> fs_market_share[i], hub |-> hub_size[i], effect |-> effect.data[i],
         weight |-> IF weights.none THEN 1 ELSE weights.data[i]]]

RowsOfHub(h) == SelectSeq(FsRows, LAMBDA r : r.hub = h)

\* The fit of simulation c on the rows of hub size h and on nothing else.
FitOfHub(h, c) ==
    LET rows == RowsOfHub(h)
    IN  Params([k \in DOMAIN rows |-> rows[k].effect[c]],
               [k \in DOMAIN rows |-> <<1, rows[k].share>>],
               [k \in DOMAIN rows |-> rows[k].weight])

\* C29: what a successful call of find_slopes returns for hub size h is
\* determined by the rows with hub_size = h, so two successful calls that
\* differ only in the market_share, effect and weight values of other rows
\* (rows of hub sizes outside 0..3 included) return the same slopes,
\* intercepts, n_obs and summary statistics for h; n_obs is the number of
\* rows with hub_size = h.
C29_OtherRowsIrrelevant ==
    fs_pc = "done" =>
        \A h \in 0..3 :
            LET slope_vec == [c \in 1..effect.shape[2] |-> FitOfHub(h, c)[2]]
                intercept_vec == [c \in 1..effect.shape[2] |-> FitOfHub(h, c)[1]]
            IN  /\ RowsOfHub(h) # <<>>
                /\ fs_result.value[1][h + 1] = slope_vec
                /\ fs_result.value[2][h + 1] = intercept_vec
                /\ fs_result.value[3][h].n_obs = Len(RowsOfHub(h))
                /\ fs_result.value[3][h].n_obs = Cardinality(StratumRows(h))
                /\ fs_result.value[3][h].slope = Stats(slope_vec)
                /\ fs_result.value[3][h].intercept = Stats(intercept_vec)

\* A call with weights whose row of hub size 4 has weight 0, and with hub
\* sizes of one, two and three rows.
C29_Witness ==
    /\ fs_pc = "done"
    /\ ~weights.none
    /\ \E i \in DOMAIN hub_size : hub_size[i] = 4 /\ weights.data[i] = 0
    /\ {Cardinality(StratumRows(h)) : h \in 0..3} = {1, 2, 3}
    /\ effect.shape[2] = 2
    /\ \E h \in 0..3 : fs_result.value[1][h + 1][1] # fs_result.value[1][h + 1][2]

====
